---- MODULE Spec2Model ----
(***************************************************************************)
(* A model of tydi-rust: the bit-precise buffer TydiBinary                   *)
(* (src/src/binary.rs) and the drilling algebra over Vec<TydiPacket<T>>      *)
(* (src/src/drilling.rs).                                                    *)
(*                                                                           *)
(* The pure functions of the crate are operators computed the way the code   *)
(* computes them (byte by byte, with the code's shifts, masks, index         *)
(* arithmetic and panics).  Small harness state machines draw their inputs   *)
(* in Init and apply the operations as actions.                              *)
(***************************************************************************)
EXTENDS Integers, Sequences, FiniteSets, TLC

VARIABLES
    overflow_checks, \* TRUE: debug build (arithmetic overflow panics); FALSE: release build (wraps)
    pc,              \* position of the harness
    a, b,            \* binary.rs: the two input buffers
    at,              \* binary.rs: the split offset
    r,               \* binary.rs: result of the last concatenate
    parts,           \* binary.rs: result of the last split
    xs,              \* drilling.rs: the flat sequence of domain values given to convert
    stream,          \* drilling.rs: the stream drill is applied to
    f,               \* drilling.rs: the closure given to drill
    dout,            \* drilling.rs: result of drill
    vout,            \* drilling.rs: result of vectorize_inner
    gout,            \* drilling.rs: result of vectorize
    parent0,         \* drilling.rs: self as it was when inject was called
    parent,          \* drilling.rs: the stream inject mutates (self)
    child,           \* drilling.rs: the stream inject reads (data)
    pidx,            \* drilling.rs: number of parent elements inject has processed
    cidx,            \* drilling.rs: number of child elements data_iter has yielded
    big_endian,      \* TRUE: the build target stores integers most significant byte first
    tsize,           \* size_of::<T>() of the payload type T of the stream given to finish
    depth,           \* the length of the last vectors of the stream given to finish
    size,            \* drilling.rs: the size argument of finish
    prim,            \* binary.rs: the value given to TydiBinary::from
    back,            \* binary.rs: result of from_tydi_binary
    bins,            \* drilling.rs: result of finish
    decoded,         \* drilling.rs: result of packets_from_binaries
    bools,           \* binary.rs: the Vec<bool> given to TydiBinary::from
    unpacked,        \* binary.rs: result of Vec::<bool>::from
    shown,           \* binary.rs: the Display string of a buffer, one digit per element
    third,           \* binary.rs: a third input buffer
    lhs, rhs,        \* binary.rs: results of the two nestings of concatenate
    vals,            \* lib.rs: the 32-bit field values packed by tests::test_packing
    packed,          \* lib.rs: result of folding concatenate over the values
    got              \* lib.rs: result of the successive split_for calls

binVars == <<a, b, at, r, parts>>
drillVars == <<xs, stream, f, dout, vout, gout>>
injectVars == <<parent0, parent, child, pidx, cidx>>
codecVars == <<big_endian, tsize, depth, size, prim, back, bins, decoded>>
moreVars == <<bools, unpacked, shown, third, lhs, rhs, vals, packed, got>>
vars == <<overflow_checks, pc, a, b, at, r, parts, xs, stream, f, dout, vout, gout,
          parent0, parent, child, pidx, cidx,
          big_endian, tsize, depth, size, prim, back, bins, decoded,
          bools, unpacked, shown, third, lhs, rhs, vals, packed, got>>

(***************************************************************************)
(* Bounds of the model.                                                      *)
(***************************************************************************)
\* Largest bit length of a canonical input buffer.
MaxLen == 16
\* Largest number of bytes of a raw (not necessarily canonical) input buffer.
MaxRawBytes == 2
\* Largest number of items of a Vec field.
MaxGroup == 3
\* Largest number of elements of an input stream of drill.
MaxStream == 2
\* Largest length of the last vectors of an input stream of drill.
MaxDepth == 1
\* Largest number of elements of the parent stream of inject.
MaxParents == 2
\* Largest number of elements of the child stream of inject.
MaxChild == 4
\* Largest length of the last vectors of a stream given to finish.
MaxLastBits == 9
MaxFields == 3
MaxAssocLen == 9
\* usize is modelled at this width: wrapped values only ever act as huge indices.
UsizeBits == 16

\* Byte values the input buffers are filled with.
ByteSamples == {0, 67, 165}   \* 0x00, 0x43, 0xA5

UsizeMod == 2 ^ UsizeBits

(***************************************************************************)
(* u8 and usize arithmetic.                                                  *)
(***************************************************************************)
BitOf(x, i) == (x \div (2 ^ i)) % 2

\* u8 << k and u8 >> k, for 0 <= k < 8
Shl8(x, k) == (x * (2 ^ k)) % 256
Shr8(x, k) == x \div (2 ^ k)

BitOr8(x, y) ==
    LET sum[i \in 0..8] ==
            IF i = 8 THEN 0
            ELSE (IF BitOf(x, i) = 1 \/ BitOf(y, i) = 1 THEN 2 ^ i ELSE 0) + sum[i + 1]
    IN sum[0]

BitAnd8(x, y) ==
    LET sum[i \in 0..8] ==
            IF i = 8 THEN 0
            ELSE (IF BitOf(x, i) = 1 /\ BitOf(y, i) = 1 THEN 2 ^ i ELSE 0) + sum[i + 1]
    IN sum[0]

\* Mutant of USub: the subtraction saturates at 0.
USubSaturating(x, y, checks) == [ok |-> TRUE, v |-> IF x >= y THEN x - y ELSE 0]

\* usize subtraction: [ok |-> FALSE] is the overflow panic of a build with
\* overflow checks, otherwise the result wraps.
USub(x, y, checks) ==
    IF x >= y THEN [ok |-> TRUE, v |-> x - y]
    ELSE IF checks THEN [ok |-> FALSE, v |-> 0]
    ELSE [ok |-> TRUE, v |-> (x - y + UsizeMod) % UsizeMod]

\* usize addition
UAdd(x, y, checks) ==
    IF x + y < UsizeMod THEN [ok |-> TRUE, v |-> x + y]
    ELSE IF checks THEN [ok |-> FALSE, v |-> 0]
    ELSE [ok |-> TRUE, v |-> (x + y) % UsizeMod]

(***************************************************************************)
(* TydiBinary: { data: Vec<u8>, len: usize }                                 *)
(***************************************************************************)
Buf(d, l) == [data |-> d, len |-> l]

empty == Buf(<<>>, 0)

\* An operation's outcome: a value, or a panic.
Ok(v) == [ok |-> TRUE, val |-> v, err |-> "none"]
Panic(why) == [ok |-> FALSE, val |-> empty, err |-> why]

\* Mutant of new: the bytes beyond len are dropped.
new_truncating(d, l) ==
    IF l <= Len(d) * 8 THEN Ok(Buf(SubSeq(d, 1, (l + 7) \div 8), l))
    ELSE Panic("Length cannot exceed data capacity")

\* TydiBinary::new: asserts len <= data.len() * 8
new(d, l) ==
    IF l <= Len(d) * 8 THEN Ok(Buf(d, l)) ELSE Panic("Length cannot exceed data capacity")

(***************************************************************************)
(* TydiBinary::concatenate                                                   *)
(***************************************************************************)
LoopOk(d) == [ok |-> TRUE, data |-> d, err |-> "none"]
LoopPanic(why) == [ok |-> FALSE, data |-> <<>>, err |-> why]

\* Mutant of CarryOver: the byte of other is pushed unshifted.
CarryOverWhole(other_byte, tail_space) == other_byte

\* The byte pushed after the last byte of self was filled from other_byte.
CarryOver(other_byte, tail_space) == Shr8(other_byte, tail_space)

\* The bits of other_byte that are ORed into the last byte of new_data.
BitsFromOther(other_byte, tail_space) == Shl8(other_byte, 8 - tail_space)

\* The loop over other.data; i is the 0-based index of enumerate().
RECURSIVE ConcatLoop(_, _, _, _, _)
ConcatLoop(new_data, other, i, tail_space, checks) ==
    IF i >= Len(other.data) THEN LoopOk(new_data)
    ELSE IF Len(new_data) = 0 THEN LoopPanic("called Option::unwrap() on a None value")
    ELSE
        LET other_byte == other.data[i + 1]
            filled == [new_data EXCEPT ![Len(new_data)] =
                          BitOr8(@, BitsFromOther(other_byte, tail_space))]
            pushed == Append(filled, CarryOver(other_byte, tail_space))
            rest == USub(other.len, i * 8, checks)
        IN  IF i < Len(other.data) - 1
            THEN ConcatLoop(pushed, other, i + 1, tail_space, checks)
            ELSE IF ~rest.ok THEN LoopPanic("attempt to subtract with overflow")
            ELSE IF rest.v > tail_space
            THEN ConcatLoop(pushed, other, i + 1, tail_space, checks)
            ELSE ConcatLoop(filled, other, i + 1, tail_space, checks)

concatenate(self, other, checks) ==
    IF self.len = 0 THEN Ok(other)
    ELSE
        LET new_len == self.len + other.len
            self_tail_bits == self.len % 8
            tail_space == 8 - self_tail_bits
            loop == ConcatLoop(self.data, other, 0, tail_space, checks)
        IN  IF self_tail_bits = 0 THEN new(self.data \o other.data, new_len)
            ELSE IF ~loop.ok THEN Panic(loop.err)
            ELSE new(loop.data, new_len)

(***************************************************************************)
(* TydiBinary::split                                                         *)
(***************************************************************************)
SplitOk(x, y) == [ok |-> TRUE, first |-> x, second |-> y, err |-> "none"]
SplitPanic(why) == [ok |-> FALSE, first |-> empty, second |-> empty, err |-> why]

\* Mutant of ByteToPush: the byte is copied whole.
ByteToPushWhole(byte, bit_offset) == byte

\* The partial trailing byte of the first part.
ByteToPush(byte, bit_offset) == BitAnd8(byte, Shr8(255, 8 - bit_offset))

\* One byte of the second part, from the current and the next source byte.
NewByte(current_byte_original, next_byte_original, bit_offset) ==
    IF bit_offset = 0 THEN next_byte_original
    ELSE BitOr8(Shr8(current_byte_original, bit_offset),
                Shl8(next_byte_original, 8 - bit_offset))

\* Index of the first source byte the second part reads.
StartIndex(full_bytes1, bit_offset, checks) ==
    USub(full_bytes1, IF bit_offset > 0 THEN 0 ELSE 1, checks)

\* The loop for i in start_index..(start_index + bytes_to_add).
RECURSIVE SplitLoop(_, _, _, _, _, _)
SplitLoop(self, i, end, bit_offset, data2, checks) ==
    IF i >= end THEN LoopOk(data2)
    ELSE
        LET next_byte_index == UAdd(i, 1, checks) IN
        IF ~next_byte_index.ok THEN LoopPanic("attempt to add with overflow")
        ELSE IF i >= Len(self.data) THEN LoopPanic("index out of bounds")
        ELSE
            LET current_byte_original == self.data[i + 1]
                next_byte_original ==
                    IF next_byte_index.v < Len(self.data)
                    THEN self.data[next_byte_index.v + 1] ELSE 0
            IN  SplitLoop(self, i + 1, end, bit_offset,
                          Append(data2, NewByte(current_byte_original,
                                                next_byte_original, bit_offset)),
                          checks)

split(self, len1, checks) ==
    LET len2 == USub(self.len, len1, checks)
        full_bytes1 == len1 \div 8
        bit_offset == len1 % 8
    IN
    IF ~len2.ok THEN SplitPanic("attempt to subtract with overflow")
    ELSE IF full_bytes1 > Len(self.data) THEN SplitPanic("index out of bounds")
    ELSE IF bit_offset > 0 /\ full_bytes1 >= Len(self.data)
    THEN SplitPanic("index out of bounds")
    ELSE
        LET head == SubSeq(self.data, 1, full_bytes1)
            data1 == IF bit_offset > 0
                     THEN Append(head, ByteToPush(self.data[full_bytes1 + 1], bit_offset))
                     ELSE head
            bin1 == new(data1, len1)
            full_bytes2 == len2.v \div 8
            rem_bits2 == len2.v % 8
            bytes_to_add == full_bytes2 + (IF rem_bits2 > 0 THEN 1 ELSE 0)
            start_index == StartIndex(full_bytes1, bit_offset, checks)
            end == UAdd(start_index.v, bytes_to_add, checks)
            loop == SplitLoop(self, start_index.v, end.v, bit_offset, <<>>, checks)
            bin2 == new(loop.data, len2.v)
        IN
        IF ~bin1.ok THEN SplitPanic(bin1.err)
        ELSE IF ~start_index.ok THEN SplitPanic("attempt to subtract with overflow")
        ELSE IF ~end.ok THEN SplitPanic("attempt to add with overflow")
        ELSE IF ~loop.ok THEN SplitPanic(loop.err)
        ELSE IF ~bin2.ok THEN SplitPanic(bin2.err)
        ELSE SplitOk(bin1.val, bin2.val)

(***************************************************************************)
(* Input domains of the buffer harness.                                      *)
(***************************************************************************)
CeilDiv8(n) == (n + 7) \div 8

SeqsOfLen(S, n) == [1..n -> S]

\* |data| = ceil(len/8) and the unused high bits of the last byte are zero.
IsCanonical(x) ==
    /\ Len(x.data) = CeilDiv8(x.len)
    /\ x.len % 8 # 0 => x.data[Len(x.data)] < 2 ^ (x.len % 8)

\* The stated invariant of the type, and no more.
SatisfiesInvariant(x) == x.len <= 8 * Len(x.data)

\* d with the bits of its last byte at and above position (l mod 8) cleared.
MaskTail(d, l) ==
    IF l % 8 = 0 THEN d ELSE [d EXCEPT ![Len(d)] = @ % (2 ^ (l % 8))]

CanonicalBufs ==
    UNION { { Buf(MaskTail(d, l), l) : d \in SeqsOfLen(ByteSamples, CeilDiv8(l)) } : l \in 0..MaxLen }

\* Any byte vector with any length it has room for: spare trailing bytes and
\* set bits above len are allowed.
RawBufs ==
    UNION { { Buf(d, l) : d \in SeqsOfLen(ByteSamples, n), l \in 0..(8 * n) } : n \in 0..MaxRawBytes }

\* Bit k of a buffer: bit (k mod 8) of data[k div 8].
Bit(x, k) == BitOf(x.data[(k \div 8) + 1], k % 8)

(***************************************************************************)
(* TydiPacket<T> { data: Option<T>, last: Vec<bool> } and Vec<TydiPacket<T>>.*)
(* Option<T> is a sequence of length at most one: None is <<>>, Some(v) is   *)
(* <<v>>.                                                                    *)
(***************************************************************************)
None == <<>>
Some(v) == <<v>>
is_some(o) == Len(o) = 1
is_none(o) == Len(o) = 0
unwrap(o) == o[1]

TydiPacket(d, l) == [data |-> d, last |-> l]

RECURSIVE Flatten(_)
Flatten(ss) == IF Len(ss) = 0 THEN <<>> ELSE Head(ss) \o Flatten(Tail(ss))

\* Mutant of convert: every element closes the dimension.
convert_closing_each(self) ==
    LET len == Len(self)
    IN  [i \in 1..len |-> TydiPacket(Some(self[i]), << TRUE >>)]

\* TydiConvert::convert: last = vec![i == len-1], i counted from 0; len-1 is
\* evaluated inside the closure of map, so never for an empty input.
convert(self) ==
    LET len == Len(self)
    IN  [i \in 1..len |-> TydiPacket(Some(self[i]), << (i - 1) = len - 1 >>)]

(***************************************************************************)
(* TydiDrill::drill                                                          *)
(***************************************************************************)
\* The closures given to drill and inject select or rebuild a Vec field of the
\* payload.
Closures == {"tags", "tags_rev"}

Reverse(q) == [i \in 1..Len(q) |-> q[Len(q) + 1 - i]]

\* f(old_data).into_iter()
Apply(fn, old_data) ==
    IF fn = "tags" THEN old_data.tags ELSE Reverse(old_data.tags)

\* Mutant of FirstDim: the outermost dimension is patched.
FirstDimZero(self) == 0

\* let d = self.first().and_then(|el| Some(el.last.len())).unwrap_or(0)
FirstDim(self) == IF Len(self) = 0 THEN 0 ELSE Len(self[1].last)

\* Mutant of NewLasts: the new flag is put in front of the outer flags.
NewLastsInFront(el) == <<FALSE>> \o el.last

\* let new_lasts = [el.last.clone(), vec![false]].concat()
NewLasts(el) == el.last \o <<FALSE>>

\* Mutant of EmptyDimension: the marker leaves the new dimension open.
EmptyDimensionOpen(el) == << TydiPacket(None, el.last \o <<FALSE>>) >>

\* vec![TydiPacket { data: None, last: [el.last.clone(), vec![true]].concat() }]
EmptyDimension(el) == << TydiPacket(None, el.last \o <<TRUE>>) >>

\* Mutant of NoData: the packet of an element without data closes the new
\* dimension.
NoDataClosed(new_lasts) ==
    << TydiPacket(None, [new_lasts EXCEPT ![Len(new_lasts)] = TRUE]) >>

\* vec![TydiPacket { data: None, last: new_lasts }]
NoData(new_lasts) == << TydiPacket(None, new_lasts) >>

\* Mutant of PatchLast: the first packet of the group is patched.
PatchFirst(res, d) == [res EXCEPT ![1].last[d + 1] = TRUE]

\* res[res_len - 1].last[d] = true
PatchLast(res, d) == [res EXCEPT ![Len(res)].last[d + 1] = TRUE]

\* The closure of flat_map: the packets one element of self turns into.
DrillElement(el, d, fn) ==
    LET new_lasts == NewLasts(el) IN
    IF is_some(el.data)
    THEN
        LET items == Apply(fn, unwrap(el.data))
            res == [n \in 1..Len(items) |-> TydiPacket(Some(items[n]), new_lasts)]
        IN  IF Len(res) = 0
            THEN [ok |-> TRUE, new_vec |-> EmptyDimension(el), called |-> TRUE]
            ELSE IF d >= Len(new_lasts)
            THEN [ok |-> FALSE, new_vec |-> <<>>, called |-> TRUE]
            ELSE [ok |-> TRUE, new_vec |-> PatchLast(res, d), called |-> TRUE]
    ELSE [ok |-> TRUE, new_vec |-> NoData(new_lasts), called |-> FALSE]

\* drill: out is the returned stream; calls lists the arguments f was applied
\* to, in order.
drill(self, fn) ==
    LET d == FirstDim(self)
        each == [i \in 1..Len(self) |-> DrillElement(self[i], d, fn)]
    IN  IF \E i \in 1..Len(self) : ~each[i].ok
        THEN [ok |-> FALSE, out |-> <<>>, calls |-> <<>>, err |-> "index out of bounds"]
        ELSE [ok |-> TRUE,
              out |-> Flatten([i \in 1..Len(self) |-> each[i].new_vec]),
              calls |-> Flatten([i \in 1..Len(self) |->
                                    IF each[i].called THEN <<unwrap(self[i].data)>>
                                    ELSE <<>>]),
              err |-> "none"]

(***************************************************************************)
(* TydiDrill::vectorize_inner                                                *)
(***************************************************************************)
VecOk(v) == [ok |-> TRUE, out |-> v, err |-> "none"]
VecPanic(why) == [ok |-> FALSE, out |-> <<>>, err |-> why]

\* Mutant of GroupPacket: an empty group becomes a packet without data.
GroupPacketNoneIfEmpty(inner_result, last_copy) ==
    TydiPacket(IF Len(inner_result) = 0 THEN None ELSE Some(inner_result), last_copy)

\* result.push(TydiPacket { data: Some(inner_result), last: last_copy })
GroupPacket(inner_result, last_copy) == TydiPacket(Some(inner_result), last_copy)

RECURSIVE VectorizeInnerLoop(_, _, _, _)
VectorizeInnerLoop(self, i, result, inner_result) ==
    IF i > Len(self) THEN VecOk(result)
    ELSE
        LET x == self[i] IN
        IF Len(x.last) = 0 THEN VecPanic("called Option::unwrap() on a None value")
        ELSE
            LET last_copy == SubSeq(x.last, 1, Len(x.last) - 1)
                last_el_in_dim == x.last[Len(x.last)]
                pushed == IF is_some(x.data)
                          THEN Append(inner_result, unwrap(x.data))
                          ELSE inner_result
            IN  IF last_el_in_dim
                THEN VectorizeInnerLoop(self, i + 1,
                         Append(result, GroupPacket(pushed, last_copy)), <<>>)
                ELSE IF is_none(x.data)
                THEN VectorizeInnerLoop(self, i + 1,
                         Append(result, TydiPacket(None, last_copy)), <<>>)
                ELSE VectorizeInnerLoop(self, i + 1, result, pushed)

vectorize_inner(self) == VectorizeInnerLoop(self, 1, <<>>, <<>>)

(***************************************************************************)
(* TydiDrill::vectorize                                                      *)
(***************************************************************************)
\* Mutant of KeepsElement: every element is pushed to the group.
KeepsElementAlways(last_el_in_dim, data) == TRUE

\* !(last_el_in_dim && x.data.is_none())
KeepsElement(last_el_in_dim, data) == ~(last_el_in_dim /\ is_none(data))

RECURSIVE VectorizeLoop(_, _, _, _)
VectorizeLoop(self, i, result, inner_result) ==
    IF i > Len(self) THEN VecOk(result)
    ELSE
        LET x == self[i] IN
        IF Len(x.last) = 0 THEN VecPanic("called Option::unwrap() on a None value")
        ELSE
            LET last_copy == SubSeq(x.last, 1, Len(x.last) - 1)
                last_el_in_dim == x.last[Len(x.last)]
                pushed == IF KeepsElement(last_el_in_dim, x.data)
                          THEN Append(inner_result, TydiPacket(x.data, last_copy))
                          ELSE inner_result
            IN  IF last_el_in_dim
                THEN VectorizeLoop(self, i + 1, Append(result, pushed), <<>>)
                ELSE VectorizeLoop(self, i + 1, result, pushed)

vectorize(self) == VectorizeLoop(self, 1, <<>>, <<>>)

(***************************************************************************)
(* TydiDrill::inject                                                         *)
(***************************************************************************)
\* Mutant of SkipNext: data_iter is not advanced.
SkipNextStay(data, c) == c

\* data_iter.next() of the branch for a parent without data: the number of
\* elements data_iter has yielded afterwards.
SkipNext(data, c) == IF c < Len(data) THEN c + 1 ELSE c

\* Mutant of GroupEnds: the last flag of the child is never honoured.
GroupEndsNever(el) == FALSE

\* *el.last.last().unwrap() == true
GroupEnds(el) == el.last[Len(el.last)]

\* Mutant of Target: the field is emptied before it is filled.
TargetFresh(self_data) == <<>>

\* let mut target = f(self_data), f the accessor of the tags field
Target(self_data) == self_data.tags

\* The while-let loop filling target; c counts the elements data_iter yielded.
RECURSIVE FillLoop(_, _, _)
FillLoop(data, c, target) ==
    IF c >= Len(data) THEN [ok |-> TRUE, target |-> target, c |-> c]
    ELSE
        LET el == data[c + 1] IN
        IF is_none(el.data) THEN [ok |-> TRUE, target |-> target, c |-> c + 1]
        ELSE
            LET grown == Append(target, unwrap(el.data)) IN
            IF Len(el.last) = 0 THEN [ok |-> FALSE, target |-> grown, c |-> c + 1]
            ELSE IF GroupEnds(el) THEN [ok |-> TRUE, target |-> grown, c |-> c + 1]
            ELSE FillLoop(data, c + 1, grown)

(***************************************************************************)
(* impl Display for TydiBinary (binary.rs).  A string is the sequence of its *)
(* characters.                                                               *)
(***************************************************************************)
\* The number of digits "{:b}" prints for a u8.
BinaryDigits(v) == IF v = 0 THEN 1 ELSE CHOOSE n \in 1..8 : 2 ^ (n - 1) <= v /\ v < 2 ^ n

\* format!("{:0w$b}", v): the binary digits of v, most significant first,
\* padded with zeros to at least w characters.
FormatBinary(v, w) ==
    LET n == IF BinaryDigits(v) > w THEN BinaryDigits(v) ELSE w
    IN  [i \in 1..n |-> IF BitOf(v, n - i) = 1 THEN "1" ELSE "0"]

\* for i in (0..full_bytes).rev() { write!(f, "{:08b}", self.data[i]) },
\* from index i down to 0.
RECURSIVE FullBytes(_, _, _)
FullBytes(self, i, written) ==
    IF i < 0 THEN VecOk(written)
    ELSE IF i >= Len(self.data) THEN VecPanic("index out of bounds")
    ELSE FullBytes(self, i - 1, written \o FormatBinary(self.data[i + 1], 8))

\* The last byte with the remaining bits.
LastByteDigits(self, full_bytes, remaining_bits) ==
    IF remaining_bits = 0 THEN VecOk(<<>>)
    ELSE IF full_bytes >= Len(self.data) THEN VecPanic("index out of bounds")
    ELSE VecOk(FormatBinary(BitAnd8(self.data[full_bytes + 1], Shr8(255, 8 - remaining_bits)),
                            remaining_bits))

\* Mutant of fmt: the full bytes are printed first to last.
fmt_forward(self) ==
    LET full_bytes == self.len \div 8
        tail == LastByteDigits(self, full_bytes, self.len % 8)
    IN  IF self.len = 0 THEN VecOk(<< "0", "b" >>)
        ELSE IF ~tail.ok THEN tail
        ELSE IF full_bytes > Len(self.data) THEN VecPanic("index out of bounds")
        ELSE VecOk(<< "0", "b" >> \o tail.out
                   \o Flatten([i \in 1..full_bytes |-> FormatBinary(self.data[i], 8)]))

\* Display::fmt, as the string it writes
fmt(self) ==
    LET full_bytes == self.len \div 8
        tail == LastByteDigits(self, full_bytes, self.len % 8)
    IN  IF self.len = 0 THEN VecOk(<< "0", "b" >>)
        ELSE IF ~tail.ok THEN tail
        ELSE FullBytes(self, full_bytes - 1, << "0", "b" >> \o tail.out)

(***************************************************************************)
(* Conversions to and from TydiBinary (binary.rs).  A value of a fixed-width *)
(* number type is a record of its size_of and its bytes, least significant   *)
(* first.                                                                    *)
(***************************************************************************)
\* value.to_ne_bytes().to_vec()
to_ne_bytes(value, big) == IF big THEN Reverse(value.bytes) ELSE value.bytes

\* <$t>::from_ne_bytes(..)
from_ne_bytes(bytes, big) ==
    [size |-> Len(bytes), bytes |-> IF big THEN Reverse(bytes) ELSE bytes]

\* Mutant of from_primitive: the length counts bytes.
from_primitive_len_bytes(value, big) == Buf(to_ne_bytes(value, big), value.size)

\* impl From<$t> for TydiBinary
from_primitive(value, big) == Buf(to_ne_bytes(value, big), value.size * 8)

DecodeOk(v, rest) == [ok |-> TRUE, value |-> Some(v), rest |-> rest, err |-> "none"]
DecodePanic(why) == [ok |-> FALSE, value |-> None, rest |-> empty, err |-> why]

\* size_of::<$t>() * 8
SizeBits(t) == t * 8

\* impl FromTydiBinary for $t, with size_of::<$t>() = t
from_tydi_binary(value, t, big, checks) ==
    LET halves == split(value, SizeBits(t), checks)
        int_bytes == halves.first.data
    IN  IF ~halves.ok THEN DecodePanic(halves.err)
        ELSE IF Len(int_bytes) # t
        THEN DecodePanic("called Result::unwrap() on an Err value")
        ELSE DecodeOk(from_ne_bytes(int_bytes, big), halves.second)

\* The UTF-8 bytes of a char: value.to_string().as_bytes()
as_bytes(c) ==
    IF c < 128 THEN << c >>
    ELSE IF c < 2048 THEN << 192 + (c \div 64), 128 + (c % 64) >>
    ELSE IF c < 65536
    THEN << 224 + (c \div 4096), 128 + ((c \div 64) % 64), 128 + (c % 64) >>
    ELSE << 240 + (c \div 262144), 128 + ((c \div 4096) % 64),
            128 + ((c \div 64) % 64), 128 + (c % 64) >>

\* impl From<char> for TydiBinary: Self { data: val, len: 8*4 }
from_char(value) == Buf(as_bytes(value), 8 * 4)

\* impl From<bool> for TydiBinary
from_bool(value) == Buf(<< IF value THEN 1 ELSE 0 >>, 1)

\* impl FromTydiBinary for bool
bool_from_tydi_binary(value, checks) ==
    LET halves == split(value, 1, checks)
    IN  IF ~halves.ok THEN DecodePanic(halves.err)
        ELSE IF Len(halves.first.data) = 0 THEN DecodePanic("index out of bounds")
        ELSE DecodeOk(halves.first.data[1] # 0, halves.second)

\* Mutant of PackChunk: the first boolean goes to the highest bit.
PackChunkHighFirst(chunk) ==
    LET sum[i \in 0..Len(chunk)] ==
            IF i = Len(chunk) THEN 0
            ELSE (IF chunk[i + 1] THEN 2 ^ (7 - i) ELSE 0) + sum[i + 1]
    IN  sum[0]

\* One byte of From<Vec<bool>>: byte |= 1 << bit_position for every true value
PackChunk(chunk) ==
    LET sum[i \in 0..Len(chunk)] ==
            IF i = Len(chunk) THEN 0
            ELSE (IF chunk[i + 1] THEN 2 ^ i ELSE 0) + sum[i + 1]
    IN  sum[0]

\* impl From<Vec<bool>> for TydiBinary
from_vec_bool(value) ==
    LET bit_count == Len(value)
        byte_count == CeilDiv8(bit_count)
        chunk(k) == SubSeq(value, 8 * (k - 1) + 1,
                           IF 8 * k < bit_count THEN 8 * k ELSE bit_count)
    IN  Buf([k \in 1..byte_count |-> PackChunk(chunk(k))], bit_count)

\* impl From<TydiBinary> for Vec<bool>: bit_count is packed_bytes.len()
vec_bool_from(value) ==
    LET packed_bytes == value.data
        bit_count == Len(packed_bytes)
        all == [k \in 1..(8 * Len(packed_bytes)) |->
                   BitAnd8(packed_bytes[((k - 1) \div 8) + 1], Shl8(1, (k - 1) % 8)) # 0]
    IN  IF bit_count < Len(all) THEN SubSeq(all, 1, bit_count) ELSE all

(***************************************************************************)
(* The codec of one element.  TydiPacket::to_binary and                      *)
(* TydiPacket::from_binary are called by drilling.rs but not defined in the  *)
(* sources at hand; they are modelled after the specification (4.5), on top  *)
(* of the conversions, concatenate and split above.                          *)
(***************************************************************************)
\* fixedPayloadWidth bits of zero
ZeroBits(width) == Buf([k \in 1..CeilDiv8(width) |-> 0], width)

\* Mutant of to_binary: the last bits come before the strobe.
to_binary_last_first(el, width, big, checks) ==
    LET strobe == from_bool(is_some(el.data))
        lastBits == from_vec_bool(el.last)
        payloadBits == IF is_some(el.data)
                       THEN from_primitive(unwrap(el.data), big)
                       ELSE ZeroBits(width)
        head == concatenate(lastBits, strobe, checks)
    IN  IF payloadBits.len # width THEN Panic("PayloadWidthMismatch")
        ELSE IF ~head.ok THEN head
        ELSE concatenate(head.val, payloadBits, checks)

\* toBinary(element, fixedPayloadWidth) =
\*     concatenate(concatenate(strobe, lastBits), payloadBits)
to_binary(el, width, big, checks) ==
    LET strobe == from_bool(is_some(el.data))
        lastBits == from_vec_bool(el.last)
        payloadBits == IF is_some(el.data)
                       THEN from_primitive(unwrap(el.data), big)
                       ELSE ZeroBits(width)
        head == concatenate(strobe, lastBits, checks)
    IN  IF payloadBits.len # width THEN Panic("PayloadWidthMismatch")
        ELSE IF ~head.ok THEN head
        ELSE concatenate(head.val, payloadBits, checks)

PacketOk(p) == [ok |-> TRUE, packet |-> p, err |-> "none"]
PacketPanic(why) == [ok |-> FALSE, packet |-> TydiPacket(None, <<>>), err |-> why]

\* fromBinary(buffer, dimensionDepth): split off 1 strobe bit, then
\* dimensionDepth last bits, then decode the remaining bits as a T (of size_of
\* t) if the strobe was set
\* The last step: the payload, decoded from the remaining bits.
PacketOfPayload(payload, last) ==
    IF ~payload.ok THEN PacketPanic(payload.err)
    ELSE PacketOk(TydiPacket(payload.value, last))

\* The booleans of the dim last bits, in bit order.
LastOfBits(lastBits, dim) == [i \in 1..dim |-> Bit(lastBits, i - 1) = 1]

\* The second step: halves is the outcome of splitting the last bits off.
PacketOfLast(present, halves, dim, t, big, checks) ==
    IF ~halves.ok THEN PacketPanic(halves.err)
    ELSE IF ~present THEN PacketOk(TydiPacket(None, LastOfBits(halves.first, dim)))
    ELSE PacketOfPayload(from_tydi_binary(halves.second, t, big, checks),
                         LastOfBits(halves.first, dim))

\* The first step: strobe is the outcome of reading the strobe bit.
PacketOfStrobe(strobe, dim, t, big, checks) ==
    IF ~strobe.ok THEN PacketPanic(strobe.err)
    ELSE PacketOfLast(unwrap(strobe.value), split(strobe.rest, dim, checks),
                      dim, t, big, checks)

from_binary(buffer, dim, t, big, checks) ==
    PacketOfStrobe(bool_from_tydi_binary(buffer, checks), dim, t, big, checks)

(***************************************************************************)
(* finish and packets_from_binaries (drilling.rs)                            *)
(***************************************************************************)
ManyOk(v) == [ok |-> TRUE, out |-> v, err |-> "none"]
ManyPanic(why) == [ok |-> FALSE, out |-> <<>>, err |-> why]

\* The position of the first element of a sequence of outcomes that failed.
FirstFailed(each) == CHOOSE i \in 1..Len(each) : ~each[i].ok /\ \A j \in 1..(i - 1) : each[j].ok

\* self.iter().map(|el| el.clone().to_binary(size)).collect()
finish(self, width, big, checks) ==
    LET each == [i \in 1..Len(self) |-> to_binary(self[i], width, big, checks)]
    IN  IF \E i \in 1..Len(each) : ~each[i].ok
        THEN ManyPanic(each[FirstFailed(each)].err)
        ELSE ManyOk([i \in 1..Len(each) |-> each[i].val])

\* value.iter().map(|el| TydiPacket::from_binary(el.clone(), dim)).collect()
packets_from_binaries(value, dim, t, big, checks) ==
    LET each == [i \in 1..Len(value) |-> from_binary(value[i], dim, t, big, checks)]
    IN  IF \E i \in 1..Len(each) : ~each[i].ok
        THEN ManyPanic(each[FirstFailed(each)].err)
        ELSE ManyOk([i \in 1..Len(each) |-> each[i].packet])

(***************************************************************************)
(* The TydiBinary of lib.rs: its bytes hold the first bit in the most        *)
(* significant position.                                                     *)
(***************************************************************************)
\* TydiBinary::new of lib.rs: asserts len <= data.len() * 8
lib_new(d, l) ==
    IF l <= Len(d) * 8 THEN Ok(Buf(d, l)) ELSE Panic("Length cannot exceed data capacity")

\* impl From<$t> for TydiBinary of lib.rs
lib_from_primitive(value, big) == Buf(to_ne_bytes(value, big), value.size * 8)

\* The loop over other.data of the unaligned concatenate.
RECURSIVE LibConcatLoop(_, _, _, _, _)
LibConcatLoop(new_data, other, i, tail_space, checks) ==
    IF i >= Len(other.data) THEN LoopOk(new_data)
    ELSE IF Len(new_data) = 0 THEN LoopPanic("called Option::unwrap() on a None value")
    ELSE
        LET other_byte == other.data[i + 1]
            bits_from_other == Shr8(other_byte, 8 - tail_space)
            filled == [new_data EXCEPT ![Len(new_data)] = BitOr8(@, bits_from_other)]
            carry_over == Shl8(other_byte, tail_space)
            pushed == Append(filled, carry_over)
            rest == USub(other.len, i * 8, checks)
        IN  IF i < Len(other.data) - 1
            THEN LibConcatLoop(pushed, other, i + 1, tail_space, checks)
            ELSE IF ~rest.ok THEN LoopPanic("attempt to subtract with overflow")
            ELSE IF rest.v > tail_space
            THEN LibConcatLoop(pushed, other, i + 1, tail_space, checks)
            ELSE LibConcatLoop(filled, other, i + 1, tail_space, checks)

\* Mutant of lib_concatenate: an aligned self is extended in front.
lib_concatenate_front(self, other, checks) ==
    IF self.len = 0 THEN Ok(other)
    ELSE
        LET new_len == self.len + other.len
            self_tail_bits == self.len % 8
            loop == LibConcatLoop(self.data, other, 0, 8 - self_tail_bits, checks)
        IN  IF self_tail_bits = 0 THEN lib_new(other.data \o self.data, new_len)
            ELSE IF ~loop.ok THEN Panic(loop.err)
            ELSE lib_new(loop.data, new_len)

\* TydiBinary::concatenate of lib.rs
lib_concatenate(self, other, checks) ==
    IF self.len = 0 THEN Ok(other)
    ELSE
        LET new_len == self.len + other.len
            self_tail_bits == self.len % 8
            loop == LibConcatLoop(self.data, other, 0, 8 - self_tail_bits, checks)
        IN  IF self_tail_bits = 0 THEN lib_new(self.data \o other.data, new_len)
            ELSE IF ~loop.ok THEN Panic(loop.err)
            ELSE lib_new(loop.data, new_len)

\* binaries.iter().fold(TydiBinary::empty(), |acc, e| acc.concatenate(e))
RECURSIVE LibFold(_, _, _, _)
LibFold(acc, binaries, i, checks) ==
    IF i > Len(binaries) THEN Ok(acc)
    ELSE LET next_acc == lib_concatenate(acc, binaries[i], checks)
         IN  IF ~next_acc.ok THEN next_acc
             ELSE LibFold(next_acc.val, binaries, i + 1, checks)

\* self.data[full_bytes1] & (!0u8 << (8 - rem_bits1))
LibByteToPush(byte, rem_bits1) == BitAnd8(byte, Shl8(255, 8 - rem_bits1))

\* One byte of the second part, from the current and the next source byte.
LibNewByte(current_byte_original, next_byte_original, start_bit_offset) ==
    IF start_bit_offset = 0 THEN next_byte_original
    ELSE BitOr8(Shl8(current_byte_original, start_bit_offset),
                Shr8(next_byte_original, 8 - start_bit_offset))

\* self.data[next_byte_index] if it exists, else 0
LibNextByte(self, next_byte_index) ==
    IF next_byte_index < Len(self.data) THEN self.data[next_byte_index + 1] ELSE 0

\* The first byte of the second part.
LibFirstByte(self, len2, start_byte_index, start_bit_offset) ==
    IF start_bit_offset > 0
    THEN IF start_byte_index >= Len(self.data) THEN LoopPanic("index out of bounds")
         ELSE LoopOk(<< LibNewByte(self.data[start_byte_index + 1],
                                   LibNextByte(self, start_byte_index + 1),
                                   start_bit_offset) >>)
    ELSE IF len2 > 0
    THEN IF start_byte_index >= Len(self.data) THEN LoopPanic("index out of bounds")
         ELSE LoopOk(<< self.data[start_byte_index + 1] >>)
    ELSE LoopOk(<<>>)

\* (len2 - (8 - start_bit_offset) % 8 + 7) / 8
LibBytesToAdd(len2, start_bit_offset, checks) ==
    LET less == USub(len2, (8 - start_bit_offset) % 8, checks)
        more == UAdd(less.v, 7, checks)
    IN  IF ~less.ok \/ ~more.ok THEN [ok |-> FALSE, v |-> 0]
        ELSE [ok |-> TRUE, v |-> more.v \div 8]

\* The loop for i in 0..bytes_to_add; base is the source index of i = 0.
RECURSIVE LibSplitLoop(_, _, _, _, _, _, _)
LibSplitLoop(self, base, i, bytes_to_add, start_bit_offset, data2, checks) ==
    IF i >= bytes_to_add THEN LoopOk(data2)
    ELSE
        LET original_byte_index == UAdd(base, i, checks)
            next_byte_index == UAdd(original_byte_index.v, 1, checks)
        IN  IF ~original_byte_index.ok \/ ~next_byte_index.ok
            THEN LoopPanic("attempt to add with overflow")
            ELSE IF original_byte_index.v >= Len(self.data)
            THEN LoopPanic("index out of bounds")
            ELSE LibSplitLoop(self, base, i + 1, bytes_to_add, start_bit_offset,
                              Append(data2,
                                     LibNewByte(self.data[original_byte_index.v + 1],
                                                LibNextByte(self, next_byte_index.v),
                                                start_bit_offset)),
                              checks)

\* Part 2 of split, from the first byte on.
LibSecond(self, len2, len1, first, checks) ==
    LET start_bit_offset == len1 % 8
        bytes_to_add == LibBytesToAdd(len2, start_bit_offset, checks)
    IN  IF ~first.ok THEN first
        ELSE IF ~bytes_to_add.ok THEN LoopPanic("attempt to subtract with overflow")
        ELSE LibSplitLoop(self, (len1 \div 8) + (IF start_bit_offset > 0 THEN 1 ELSE 0),
                          0, bytes_to_add.v, start_bit_offset, first.data, checks)

\* Part 1 of split.
LibFirst(self, len1) ==
    LET full_bytes1 == len1 \div 8
        rem_bits1 == len1 % 8
    IN  IF full_bytes1 > Len(self.data) THEN LoopPanic("index out of bounds")
        ELSE IF rem_bits1 = 0 THEN LoopOk(SubSeq(self.data, 1, full_bytes1))
        ELSE IF full_bytes1 >= Len(self.data) THEN LoopPanic("index out of bounds")
        ELSE LoopOk(Append(SubSeq(self.data, 1, full_bytes1),
                           LibByteToPush(self.data[full_bytes1 + 1], rem_bits1)))

\* The two parts, once their bytes are collected.
LibParts(data1, len1, data2, len2) ==
    LET bin1 == lib_new(data1.data, len1)
        bin2 == lib_new(data2.data, len2)
    IN  IF ~data1.ok THEN SplitPanic(data1.err)
        ELSE IF ~bin1.ok THEN SplitPanic(bin1.err)
        ELSE IF ~data2.ok THEN SplitPanic(data2.err)
        ELSE IF ~bin2.ok THEN SplitPanic(bin2.err)
        ELSE SplitOk(bin1.val, bin2.val)

\* TydiBinary::split of lib.rs
lib_split(self, len1, checks) ==
    LET len2 == USub(self.len, len1, checks)
        data1 == LibFirst(self, len1)
    IN  IF ~len2.ok THEN SplitPanic("attempt to subtract with overflow")
        ELSE IF ~data1.ok THEN SplitPanic(data1.err)
        ELSE LibParts(data1, len1,
                      LibSecond(self, len2.v, len1,
                                LibFirstByte(self, len2.v, len1 \div 8, len1 % 8),
                                checks),
                      len2.v)

\* TydiBinary::split_for::<T> of lib.rs with size_of::<T>() = t; from_bytes
\* fails on a slice that is not size_of::<T>() bytes long.
lib_split_for(self, t, big, checks) ==
    LET halves == lib_split(self, t * 8, checks)
    IN  IF ~halves.ok THEN DecodePanic(halves.err)
        ELSE IF Len(halves.first.data) # t THEN DecodePanic("SizeMismatch")
        ELSE DecodeOk(from_ne_bytes(halves.first.data, big), halves.second)

(***************************************************************************)
(* Input domains of the stream harnesses.                                    *)
(***************************************************************************)
Ids == {1, 2}

\* The k items of the tags field of the domain value with this id.
Tags(i, k) == [j \in 1..k |-> 10 * i + j]

\* Domain values: a record with one Vec field.
Values == { [id |-> i, tags |-> Tags(i, k)] : i \in Ids, k \in 0..MaxGroup }

Options(P) == {None} \cup { Some(v) : v \in P }

Packets(P, d) == { TydiPacket(o, l) : o \in Options(P), l \in [1..d -> BOOLEAN] }

\* Streams whose elements all have a last vector of the same length.
HomogeneousStreams ==
    UNION { SeqsOfLen(Packets(Values, d), n) : d \in 0..MaxDepth, n \in 0..MaxStream }

IsHomogeneous(s) == \A i, j \in 1..Len(s) : Len(s[i].last) = Len(s[j].last)

NoDrill == [ok |-> TRUE, out |-> <<>>, calls |-> <<>>, err |-> "none"]

DrillIdle ==
    /\ xs = <<>>
    /\ stream = <<>>
    /\ f = "tags"
    /\ dout = NoDrill
    /\ vout = VecOk(<<>>)
    /\ gout = VecOk(<<>>)

\* Parents of inject: a payload with an empty or a filled target field, or
\* none; last as convert sets it.
ParentPayloads == { [id |-> 1, tags |-> <<>>], [id |-> 2, tags |-> <<20>>] }

SeqsUpTo(S, n) == UNION { SeqsOfLen(S, k) : k \in 0..n }

BinaryIdle ==
    /\ a = empty
    /\ b = empty
    /\ at = 0
    /\ r = Ok(empty)
    /\ parts = SplitOk(empty, empty)

ParentStreams ==
    UNION { { [i \in 1..n |-> TydiPacket(o[i], << i = n >>)] :
              o \in [1..n -> Options(ParentPayloads)] } : n \in 0..MaxParents }

ChildItems == {11, 12}

ChildStreams ==
    UNION { SeqsOfLen(Packets(ChildItems, 1), n) : n \in 0..MaxChild }

InjectIdle ==
    /\ parent0 = <<>>
    /\ parent = <<>>
    /\ child = <<>>
    /\ pidx = 0
    /\ cidx = 0

\* The fixed-width number types of impl_from_primitive!, by size_of:
\* u8, u16, u32, u64.
PrimitiveSizes == {1, 2, 4, 8}

\* Values of the type of size t: 0, all ones, the alternating pattern 0xAA..,
\* and the value whose k-th byte is k.
PrimSamples(t) ==
    { [k \in 1..t |-> c] : c \in {0, 255, 170} } \cup { [k \in 1..t |-> k] }

PrimValues(t) == { [size |-> t, bytes |-> bs] : bs \in PrimSamples(t) }

NoDecode == [ok |-> TRUE, value |-> None, rest |-> empty, err |-> "none"]

MoreIdle ==
    /\ bools = <<>>
    /\ unpacked = <<>>
    /\ shown = VecOk(<<>>)
    /\ third = empty
    /\ lhs = Ok(empty)
    /\ rhs = Ok(empty)
    /\ vals = <<>>
    /\ packed = Ok(empty)
    /\ got = ManyOk(<<>>)

CodecIdle ==
    /\ big_endian = FALSE
    /\ tsize = 1
    /\ depth = 0
    /\ size = 8
    /\ prim = [size |-> 1, bytes |-> <<0>>]
    /\ back = NoDecode
    /\ bins = ManyOk(<<>>)
    /\ decoded = ManyOk(<<>>)

\* Payloads of the streams given to finish: u8 and u16, two values each.
CodecSizes == {1, 2}

CodecValues(t) ==
    { [size |-> t, bytes |-> bs] : bs \in { [k \in 1..t |-> 170], [k \in 1..t |-> k] } }

\* Last vectors of length d: all false, all true, every other flag true.
LastSamples(d) ==
    { [i \in 1..d |-> FALSE], [i \in 1..d |-> TRUE], [i \in 1..d |-> i % 2 = 1] }

CodecPackets(t, d) ==
    { TydiPacket(o, l) : o \in Options(CodecValues(t)), l \in LastSamples(d) }

CodecStreams(t, d) == SeqsUpTo(CodecPackets(t, d), MaxStream)

(***************************************************************************)
(* The buffer harness, after tests::test_binary_glue: "glue" concatenates    *)
(* a and b and splits the result at a.len; "cut" splits a at an offset and   *)
(* concatenates the two parts again.                                         *)
(***************************************************************************)
NoParts == SplitOk(empty, empty)

InitBuffers(S) ==
    /\ overflow_checks \in BOOLEAN
    /\ pc \in {"glue", "cut"}
    /\ a \in S
    /\ b \in (IF pc = "glue" THEN S ELSE {empty})
    /\ at = 0
    /\ r = Ok(empty)
    /\ parts = NoParts
    /\ DrillIdle
    /\ InjectIdle
    /\ CodecIdle
    /\ MoreIdle

\* let package = a.concatenate(&b)
Glue ==
    /\ pc = "glue"
    /\ r' = concatenate(a, b, overflow_checks)
    /\ pc' = "glued"
    /\ UNCHANGED <<overflow_checks, a, b, at, parts, drillVars, injectVars, codecVars, moreVars>>

\* let (recovered_a, recovered_b) = package.split(a.len)
Unglue ==
    /\ pc = "glued"
    /\ r.ok
    /\ at' = a.len
    /\ parts' = split(r.val, a.len, overflow_checks)
    /\ pc' = "unglued"
    /\ UNCHANGED <<overflow_checks, a, b, r, drillVars, injectVars, codecVars, moreVars>>

\* let (first, second) = a.split(n)
Cut ==
    /\ pc = "cut"
    /\ \E n \in 0..a.len :
          /\ at' = n
          /\ parts' = split(a, n, overflow_checks)
    /\ pc' = "cutdone"
    /\ UNCHANGED <<overflow_checks, a, b, r, drillVars, injectVars, codecVars, moreVars>>

\* first.concatenate(&second)
Rejoin ==
    /\ pc = "cutdone"
    /\ parts.ok
    /\ r' = concatenate(parts.first, parts.second, overflow_checks)
    /\ pc' = "rejoined"
    /\ UNCHANGED <<overflow_checks, a, b, at, parts, drillVars, injectVars, codecVars, moreVars>>

InitBinary == InitBuffers(CanonicalBufs)
NextBinary == Glue \/ Unglue \/ Cut \/ Rejoin
SpecBinary == InitBinary /\ [][NextBinary]_vars

InitRaw == InitBuffers(RawBufs) /\ pc = "glue"
NextRaw == Glue
SpecRaw == InitRaw /\ [][NextRaw]_vars

(***************************************************************************)
(* The stream harness: a stream is made by convert or arrives from elsewhere,*)
(* is drilled with a closure, and the result is vectorized again.            *)
(* None of the index arithmetic of drilling.rs can overflow, so one build    *)
(* stands for both.                                                          *)
(***************************************************************************)
InitDrill ==
    /\ overflow_checks = TRUE
    /\ pc = "input"
    /\ BinaryIdle
    /\ DrillIdle
    /\ InjectIdle
    /\ CodecIdle
    /\ MoreIdle

\* let stream = xs.convert()
Convert ==
    /\ pc = "input"
    /\ \E v \in SeqsUpTo(Values, MaxStream) :
          /\ xs' = v
          /\ stream' = convert(v)
    /\ pc' = "stream"
    /\ UNCHANGED <<overflow_checks, binVars, f, dout, vout, gout, injectVars, codecVars, moreVars>>

\* A stream made elsewhere (decoded, or the result of an earlier drill).
Load ==
    /\ pc = "input"
    /\ \E s \in HomogeneousStreams : stream' = s
    /\ pc' = "stream"
    /\ UNCHANGED <<overflow_checks, binVars, xs, f, dout, vout, gout, injectVars, codecVars, moreVars>>

\* stream.drill(fn)
Drill ==
    /\ pc = "stream"
    /\ \E fn \in Closures :
          /\ f' = fn
          /\ dout' = drill(stream, fn)
    /\ pc' = "drilled"
    /\ UNCHANGED <<overflow_checks, binVars, xs, stream, vout, gout, injectVars, codecVars, moreVars>>

\* drilled.vectorize_inner()
VectorizeInner ==
    /\ pc = "drilled"
    /\ dout.ok
    /\ vout' = vectorize_inner(dout.out)
    /\ pc' = "vectorized"
    /\ UNCHANGED <<overflow_checks, binVars, xs, stream, f, dout, gout, injectVars, codecVars, moreVars>>

NextDrill == Convert \/ Load \/ Drill \/ VectorizeInner
SpecDrill == InitDrill /\ [][NextDrill]_vars

(***************************************************************************)
(* inject, one action per iteration of its for loop over self; the closure   *)
(* is the accessor of the tags field.                                        *)
(***************************************************************************)
InitInject ==
    /\ overflow_checks = TRUE
    /\ pc = "inject"
    /\ BinaryIdle
    /\ DrillIdle
    /\ CodecIdle
    /\ MoreIdle
    /\ parent0 \in ParentStreams
    /\ parent = parent0
    /\ child \in ChildStreams
    /\ pidx = 0
    /\ cidx = 0

\* if self_option.is_none() { data_iter.next(); continue }
InjectSkip ==
    /\ pc = "inject"
    /\ pidx < Len(parent)
    /\ is_none(parent[pidx + 1].data)
    /\ cidx' = SkipNext(child, cidx)
    /\ pidx' = pidx + 1
    /\ UNCHANGED <<overflow_checks, pc, binVars, drillVars, parent0, parent, child, codecVars, moreVars>>

\* let mut target = f(self_data); while let Some(el) = data_iter.next() { .. }
InjectFill ==
    /\ pc = "inject"
    /\ pidx < Len(parent)
    /\ is_some(parent[pidx + 1].data)
    /\ LET self_data == unwrap(parent[pidx + 1].data)
           fill == FillLoop(child, cidx, Target(self_data))
       IN  /\ parent' = [parent EXCEPT ![pidx + 1].data =
                            Some([self_data EXCEPT !.tags = fill.target])]
           /\ cidx' = fill.c
           /\ pc' = IF fill.ok THEN "inject" ELSE "inject_panic"
    /\ pidx' = pidx + 1
    /\ UNCHANGED <<overflow_checks, binVars, drillVars, parent0, child, codecVars, moreVars>>

\* the for loop is over: inject returns self
InjectReturn ==
    /\ pc = "inject"
    /\ pidx = Len(parent)
    /\ pc' = "injected"
    /\ UNCHANGED <<overflow_checks, binVars, drillVars, injectVars, codecVars, moreVars>>

NextInject == InjectSkip \/ InjectFill \/ InjectReturn
SpecInject == InitInject /\ [][NextInject]_vars

(***************************************************************************)
(* The round-trip harness: a field of a parent stream is drilled out, the    *)
(* field is emptied in the parent, and the drilled stream is injected back.  *)
(***************************************************************************)
\* The parent with the tags field of every present payload emptied.
Emptied(p) ==
    [i \in 1..Len(p) |->
        IF is_some(p[i].data)
        THEN TydiPacket(Some([unwrap(p[i].data) EXCEPT !.tags = <<>>]), p[i].last)
        ELSE p[i]]

InitRound ==
    /\ overflow_checks = TRUE
    /\ pc = "round"
    /\ BinaryIdle
    /\ DrillIdle
    /\ CodecIdle
    /\ MoreIdle
    /\ parent0 \in HomogeneousStreams
    /\ parent = parent0
    /\ child = <<>>
    /\ pidx = 0
    /\ cidx = 0

\* let child = parent.drill(|v| v.tags.clone()); the field is emptied
DrillField ==
    /\ pc = "round"
    /\ f' = "tags"
    /\ dout' = drill(parent0, "tags")
    /\ child' = dout'.out
    /\ parent' = Emptied(parent0)
    /\ pc' = IF dout'.ok THEN "inject" ELSE "drill_panic"
    /\ UNCHANGED <<overflow_checks, binVars, xs, stream, vout, gout, parent0, pidx, cidx,
                   codecVars, moreVars>>

NextRound == DrillField \/ InjectSkip \/ InjectFill \/ InjectReturn
SpecRound == InitRound /\ [][NextRound]_vars

(***************************************************************************)
(* The grouping harness: a drilled stream is grouped by vectorize and by     *)
(* vectorize_inner.                                                          *)
(***************************************************************************)
\* Streams of up to MaxChild elements with last vectors of one length.
VecStreams ==
    UNION { SeqsOfLen(Packets(ChildItems, d), n) : d \in 0..MaxDepth, n \in 0..MaxChild }

InitVectorize ==
    /\ overflow_checks = TRUE
    /\ pc = "vec_input"
    /\ BinaryIdle
    /\ InjectIdle
    /\ xs = <<>>
    /\ stream \in VecStreams
    /\ f = "tags"
    /\ dout = NoDrill
    /\ vout = VecOk(<<>>)
    /\ gout = VecOk(<<>>)
    /\ CodecIdle
    /\ MoreIdle

\* stream.vectorize()
Vectorize ==
    /\ pc = "vec_input"
    /\ gout' = vectorize(stream)
    /\ pc' = "vec_grouped"
    /\ UNCHANGED <<overflow_checks, binVars, xs, stream, f, dout, vout, injectVars, codecVars, moreVars>>

\* stream.vectorize_inner()
VectorizeInnerSame ==
    /\ pc = "vec_grouped"
    /\ vout' = vectorize_inner(stream)
    /\ pc' = "vec_both"
    /\ UNCHANGED <<overflow_checks, binVars, xs, stream, f, dout, gout, injectVars, codecVars, moreVars>>

NextVectorize == Vectorize \/ VectorizeInnerSame
SpecVectorize == InitVectorize /\ [][NextVectorize]_vars

(***************************************************************************)
(* The codec harness: a stream of elements with fixed-width payloads is      *)
(* turned into buffers by finish and back by packets_from_binaries.          *)
(***************************************************************************)
InitCodec ==
    /\ overflow_checks \in BOOLEAN
    /\ big_endian \in BOOLEAN
    /\ pc = "codec"
    /\ BinaryIdle
    /\ InjectIdle
    /\ tsize \in CodecSizes
    /\ depth \in 0..MaxLastBits
    /\ xs = <<>>
    /\ stream \in CodecStreams(tsize, depth)
    /\ f = "tags"
    /\ dout = NoDrill
    /\ vout = VecOk(<<>>)
    /\ gout = VecOk(<<>>)
    /\ size = 8
    /\ prim = [size |-> 1, bytes |-> <<0>>]
    /\ back = NoDecode
    /\ bins = ManyOk(<<>>)
    /\ decoded = ManyOk(<<>>)
    /\ MoreIdle

\* stream.finish(size)
Finish ==
    /\ pc = "codec"
    /\ \E t \in CodecSizes :
          /\ size' = SizeBits(t)
          /\ bins' = finish(stream, SizeBits(t), big_endian, overflow_checks)
    /\ pc' = "finished"
    /\ UNCHANGED <<overflow_checks, binVars, drillVars, injectVars,
                   big_endian, tsize, depth, prim, back, decoded, moreVars>>

\* packets_from_binaries::<T>(bins, depth)
PacketsFromBinaries ==
    /\ pc = "finished"
    /\ bins.ok
    /\ decoded' = packets_from_binaries(bins.out, depth, tsize, big_endian, overflow_checks)
    /\ pc' = "unpacked"
    /\ UNCHANGED <<overflow_checks, binVars, drillVars, injectVars,
                   big_endian, tsize, depth, size, prim, back, bins, moreVars>>

NextCodec == Finish \/ PacketsFromBinaries
SpecCodec == InitCodec /\ [][NextCodec]_vars

(***************************************************************************)
(* The number harness, after tests::test_binary_from_u32: a fixed-width      *)
(* value is converted to a buffer, a canonical buffer is concatenated behind *)
(* it, and the value is read back with from_tydi_binary.                     *)
(***************************************************************************)
InitPrimitive ==
    /\ overflow_checks \in BOOLEAN
    /\ big_endian \in BOOLEAN
    /\ pc = "prim"
    /\ a = empty
    /\ b \in CanonicalBufs
    /\ at = 0
    /\ r = Ok(empty)
    /\ parts = NoParts
    /\ DrillIdle
    /\ InjectIdle
    /\ tsize = 1
    /\ depth = 0
    /\ size = 8
    /\ \E t \in PrimitiveSizes : prim \in PrimValues(t)
    /\ back = NoDecode
    /\ bins = ManyOk(<<>>)
    /\ decoded = ManyOk(<<>>)
    /\ MoreIdle

\* let binary = TydiBinary::from(value)
FromPrimitive ==
    /\ pc = "prim"
    /\ a' = from_primitive(prim, big_endian)
    /\ pc' = "glue"
    /\ UNCHANGED <<overflow_checks, b, at, r, parts, drillVars, injectVars, codecVars, moreVars>>

\* <$t>::from_tydi_binary(package)
FromTydiBinary ==
    /\ pc = "glued"
    /\ r.ok
    /\ back' = from_tydi_binary(r.val, prim.size, big_endian, overflow_checks)
    /\ pc' = "prim_back"
    /\ UNCHANGED <<overflow_checks, binVars, drillVars, injectVars,
                   big_endian, tsize, depth, size, prim, bins, decoded, moreVars>>

NextPrimitive == FromPrimitive \/ Glue \/ FromTydiBinary
SpecPrimitive == InitPrimitive /\ [][NextPrimitive]_vars

(***************************************************************************)
(* The construction harness: a buffer is made by one of the public           *)
(* constructors and conversions of binary.rs, a canonical buffer is          *)
(* concatenated behind it and the result is split where it was joined.       *)
(***************************************************************************)
\* The chars given to TydiBinary::from: the ASCII chars NUL, 'm' and DEL, and
\* chars of two, three and four UTF-8 bytes.
Chars == {0, 109, 127, 233, 8364, 128512}

IsAscii(c) == c < 128

\* The arguments given to TydiBinary::new: byte vectors with a length around
\* their capacity.
NewArgs ==
    UNION { { Buf(d, l) : d \in SeqsOfLen(ByteSamples, n),
                          l \in {0, 8 * n, 8 * n + 1} \cup (IF n > 0 THEN {8 * n - 1} ELSE {}) } :
            n \in 0..MaxRawBytes }

InitFrom ==
    /\ overflow_checks \in BOOLEAN
    /\ big_endian \in BOOLEAN
    /\ pc = "from"
    /\ a = empty
    /\ b \in CanonicalBufs
    /\ at = 0
    /\ r = Ok(empty)
    /\ parts = NoParts
    /\ DrillIdle
    /\ InjectIdle
    /\ tsize = 1
    /\ depth = 0
    /\ size = 8
    /\ prim = [size |-> 1, bytes |-> <<0>>]
    /\ back = NoDecode
    /\ bins = ManyOk(<<>>)
    /\ decoded = ManyOk(<<>>)
    /\ MoreIdle

\* TydiBinary::empty()
Empty ==
    /\ pc = "from"
    /\ a' = empty
    /\ pc' = "glue"
    /\ UNCHANGED <<overflow_checks, b, at, r, parts, drillVars, injectVars, codecVars, moreVars>>

\* TydiBinary::new(data, len)
New ==
    /\ pc = "from"
    /\ \E x \in NewArgs :
          LET made == new(x.data, x.len)
          IN  /\ a' = made.val
              /\ pc' = IF made.ok THEN "glue" ELSE "new_panic"
    /\ UNCHANGED <<overflow_checks, b, at, r, parts, drillVars, injectVars, codecVars, moreVars>>

\* TydiBinary::from(value) for a fixed-width number
FromNumber ==
    /\ pc = "from"
    /\ \E t \in PrimitiveSizes : \E v \in PrimValues(t) :
          /\ prim' = v
          /\ a' = from_primitive(v, big_endian)
    /\ pc' = "glue"
    /\ UNCHANGED <<overflow_checks, b, at, r, parts, drillVars, injectVars,
                   big_endian, tsize, depth, size, back, bins, decoded, moreVars>>

\* TydiBinary::from(value) for a bool
FromBool ==
    /\ pc = "from"
    /\ \E v \in BOOLEAN : a' = from_bool(v)
    /\ pc' = "glue"
    /\ UNCHANGED <<overflow_checks, b, at, r, parts, drillVars, injectVars, codecVars, moreVars>>

\* TydiBinary::from(value) for a char
FromChar ==
    /\ pc = "from"
    /\ \E c \in Chars : a' = from_char(c)
    /\ pc' = "glue"
    /\ UNCHANGED <<overflow_checks, b, at, r, parts, drillVars, injectVars, codecVars, moreVars>>

\* TydiBinary::from(value) for a Vec<bool>
FromBools ==
    /\ pc = "from"
    /\ \E d \in 0..MaxLastBits : \E v \in LastSamples(d) : a' = from_vec_bool(v)
    /\ pc' = "glue"
    /\ UNCHANGED <<overflow_checks, b, at, r, parts, drillVars, injectVars, codecVars, moreVars>>

NextFrom == Empty \/ New \/ FromNumber \/ FromBool \/ FromChar \/ FromBools \/ Glue \/ Unglue
SpecFrom == InitFrom /\ [][NextFrom]_vars

(***************************************************************************)
(* The overlong split: a buffer, spare bytes and set bits beyond len         *)
(* allowed, is split at an offset greater than its length.                   *)
(***************************************************************************)
InitOverCut ==
    /\ overflow_checks \in BOOLEAN
    /\ pc = "overcut"
    /\ a \in RawBufs
    /\ b = empty
    /\ at = 0
    /\ r = Ok(empty)
    /\ parts = NoParts
    /\ DrillIdle
    /\ InjectIdle
    /\ CodecIdle
    /\ MoreIdle

\* a.split(n) with n > a.len: offsets within and beyond the capacity of
\* a.data, and the largest usize.
OverCut ==
    /\ pc = "overcut"
    /\ \E n \in ((a.len + 1)..(8 * MaxRawBytes + 8)) \cup {UsizeMod - 1} :
          /\ at' = n
          /\ parts' = split(a, n, overflow_checks)
    /\ pc' = "overcut_done"
    /\ UNCHANGED <<overflow_checks, a, b, r, drillVars, injectVars, codecVars, moreVars>>

NextOverCut == OverCut
SpecOverCut == InitOverCut /\ [][NextOverCut]_vars

(***************************************************************************)
(* The aligned concatenation: a buffer whose length is a whole number of     *)
(* bytes (spare bytes allowed) is concatenated with any buffer.              *)
(***************************************************************************)
AlignedRawBufs == { x \in RawBufs : x.len % 8 = 0 }

InitAligned ==
    /\ overflow_checks \in BOOLEAN
    /\ pc = "glue"
    /\ a \in AlignedRawBufs
    /\ b \in RawBufs
    /\ at = 0
    /\ r = Ok(empty)
    /\ parts = NoParts
    /\ DrillIdle
    /\ InjectIdle
    /\ CodecIdle
    /\ MoreIdle

NextAligned == Glue
SpecAligned == InitAligned /\ [][NextAligned]_vars

(***************************************************************************)
(* The flag harness: a Vec<bool> is packed into a buffer and unpacked again. *)
(***************************************************************************)
BoolVecs == UNION { [1..n -> BOOLEAN] : n \in 0..MaxLastBits }

InitBools ==
    /\ overflow_checks = TRUE
    /\ pc = "bools"
    /\ BinaryIdle
    /\ DrillIdle
    /\ InjectIdle
    /\ CodecIdle
    /\ bools \in BoolVecs
    /\ unpacked = <<>>
    /\ shown = VecOk(<<>>)
    /\ third = empty
    /\ lhs = Ok(empty)
    /\ rhs = Ok(empty)
    /\ vals = <<>>
    /\ packed = Ok(empty)
    /\ got = ManyOk(<<>>)

\* let binary = TydiBinary::from(bools)
PackBools ==
    /\ pc = "bools"
    /\ a' = from_vec_bool(bools)
    /\ pc' = "bools_packed"
    /\ UNCHANGED <<overflow_checks, b, at, r, parts, drillVars, injectVars, codecVars, moreVars>>

\* let back: Vec<bool> = binary.into()
UnpackBools ==
    /\ pc = "bools_packed"
    /\ unpacked' = vec_bool_from(a)
    /\ pc' = "bools_unpacked"
    /\ UNCHANGED <<overflow_checks, binVars, drillVars, injectVars, codecVars,
                   bools, shown, third, lhs, rhs, vals, packed, got>>

NextBools == PackBools \/ UnpackBools
SpecBools == InitBools /\ [][NextBools]_vars

(***************************************************************************)
(* The packing harness (lib.rs, tests::test_packing): the u32 fields of a    *)
(* record are packed by folding concatenate from empty() and unpacked by     *)
(* one split_for per field.                                                  *)
(***************************************************************************)
\* size_of::<u32>()
FieldSize == 4

FieldLists == UNION { [1..k -> PrimValues(FieldSize)] : k \in 1..MaxFields }

InitPacking ==
    /\ overflow_checks \in BOOLEAN
    /\ pc = "fields"
    /\ BinaryIdle
    /\ DrillIdle
    /\ InjectIdle
    /\ big_endian \in BOOLEAN
    /\ tsize = FieldSize
    /\ depth = 0
    /\ size = 8
    /\ prim = [size |-> 1, bytes |-> <<0>>]
    /\ back = NoDecode
    /\ bins = ManyOk(<<>>)
    /\ decoded = ManyOk(<<>>)
    /\ bools = <<>>
    /\ unpacked = <<>>
    /\ shown = VecOk(<<>>)
    /\ third = empty
    /\ lhs = Ok(empty)
    /\ rhs = Ok(empty)
    /\ vals \in FieldLists
    /\ packed = Ok(empty)
    /\ got = ManyOk(<<>>)

\* let bin = TydiBinary::from(data)
Pack ==
    /\ pc = "fields"
    /\ packed' = LibFold(empty, [i \in 1..Len(vals) |-> lib_from_primitive(vals[i], big_endian)],
                         1, overflow_checks)
    /\ b' = IF packed'.ok THEN packed'.val ELSE empty
    /\ pc' = IF packed'.ok THEN "packed" ELSE "pack_failed"
    /\ UNCHANGED <<overflow_checks, a, at, r, parts, drillVars, injectVars, codecVars,
                   bools, unpacked, shown, third, lhs, rhs, vals, got>>

\* let (field, remainder) = remainder.split_for()
SplitFor ==
    /\ pc = "packed"
    /\ got.ok
    /\ Len(got.out) < Len(vals)
    /\ LET one == lib_split_for(b, tsize, big_endian, overflow_checks)
       IN  /\ got' = IF one.ok THEN ManyOk(Append(got.out, unwrap(one.value)))
                     ELSE ManyPanic(one.err)
           /\ b' = one.rest
    /\ UNCHANGED <<overflow_checks, pc, a, at, r, parts, drillVars, injectVars, codecVars,
                   bools, unpacked, shown, third, lhs, rhs, vals, packed>>

NextPacking == Pack \/ SplitFor
SpecPacking == InitPacking /\ [][NextPacking]_vars

(***************************************************************************)
(* The display harness: a canonical buffer is printed, or joined to another  *)
(* and the result printed.                                                   *)
(***************************************************************************)
InitShow == InitBuffers(CanonicalBufs) /\ pc = "glue"

\* println!("{}", a)
Show ==
    /\ pc = "glue"
    /\ shown' = fmt(a)
    /\ pc' = "shown"
    /\ UNCHANGED <<overflow_checks, binVars, drillVars, injectVars, codecVars,
                   bools, unpacked, third, lhs, rhs, vals, packed, got>>

\* println!("{}", package)
ShowGlued ==
    /\ pc = "glued"
    /\ r.ok
    /\ shown' = fmt(r.val)
    /\ pc' = "glued_shown"
    /\ UNCHANGED <<overflow_checks, binVars, drillVars, injectVars, codecVars,
                   bools, unpacked, third, lhs, rhs, vals, packed, got>>

NextShow == Show \/ Glue \/ ShowGlued
SpecShow == InitShow /\ [][NextShow]_vars

(***************************************************************************)
(* The chaining harness: three canonical buffers are joined in both          *)
(* groupings, and a buffer is joined to empty() on either side.              *)
(***************************************************************************)
AssocBufs == { x \in CanonicalBufs : x.len <= MaxAssocLen }

InitAssoc ==
    /\ overflow_checks \in BOOLEAN
    /\ pc = "assoc"
    /\ a \in AssocBufs
    /\ b \in AssocBufs
    /\ at = 0
    /\ r = Ok(empty)
    /\ parts = NoParts
    /\ DrillIdle
    /\ InjectIdle
    /\ CodecIdle
    /\ bools = <<>>
    /\ unpacked = <<>>
    /\ shown = VecOk(<<>>)
    /\ third \in AssocBufs
    /\ lhs = Ok(empty)
    /\ rhs = Ok(empty)
    /\ vals = <<>>
    /\ packed = Ok(empty)
    /\ got = ManyOk(<<>>)

\* first.concatenate(&other), when first was built
Then(first, other, checks) ==
    IF first.ok THEN concatenate(first.val, other, checks) ELSE first

\* a.concatenate(&b).concatenate(&c)
GlueLeft ==
    /\ pc = "assoc"
    /\ lhs' = Then(concatenate(a, b, overflow_checks), third, overflow_checks)
    /\ pc' = "left"
    /\ UNCHANGED <<overflow_checks, binVars, drillVars, injectVars, codecVars,
                   bools, unpacked, shown, third, rhs, vals, packed, got>>

\* a.concatenate(&b.concatenate(&c))
GlueRight ==
    /\ pc = "left"
    /\ LET inner == concatenate(b, third, overflow_checks)
       IN  rhs' = IF inner.ok THEN concatenate(a, inner.val, overflow_checks) ELSE inner
    /\ pc' = "both"
    /\ UNCHANGED <<overflow_checks, binVars, drillVars, injectVars, codecVars,
                   bools, unpacked, shown, third, lhs, vals, packed, got>>

\* TydiBinary::empty().concatenate(&a)
GlueToEmpty ==
    /\ pc = "assoc"
    /\ r' = concatenate(empty, a, overflow_checks)
    /\ pc' = "empty_left"
    /\ UNCHANGED <<overflow_checks, a, b, at, parts, drillVars, injectVars, codecVars, moreVars>>

\* a.concatenate(&TydiBinary::empty())
GlueEmpty ==
    /\ pc = "assoc"
    /\ r' = concatenate(a, empty, overflow_checks)
    /\ pc' = "empty_right"
    /\ UNCHANGED <<overflow_checks, a, b, at, parts, drillVars, injectVars, codecVars, moreVars>>

NextAssoc == GlueLeft \/ GlueRight \/ GlueToEmpty \/ GlueEmpty
SpecAssoc == InitAssoc /\ [][NextAssoc]_vars

(***************************************************************************)
(* Claims about TydiBinary.                                                  *)
(***************************************************************************)
\* r holds a's bits followed by b's bits.
IsBitsOfAThenB ==
    /\ r.ok
    /\ r.val.len = a.len + b.len
    /\ \A k \in 0..(a.len + b.len - 1) :
          Bit(r.val, k) = IF k < a.len THEN Bit(a, k) ELSE Bit(b, k - a.len)

\* C1: for all buffers a, b that satisfy only len <= 8*|data|, concatenate(a, b)
\* has length a.len + b.len, its bit k is a's bit k for k < a.len and b's bit
\* (k - a.len) for a.len <= k < a.len + b.len.
C1_ConcatBitsRaw ==
    (pc = "glued" /\ SatisfiesInvariant(a) /\ SatisfiesInvariant(b)) => IsBitsOfAThenB

\* C2: for all canonical a, b (a.len = 0 and b.len = 0 included),
\* split(concatenate(a, b), a.len) returns exactly (a, b).
C2_SplitOfConcat ==
    pc = "unglued" => (parts.ok /\ parts.first = a /\ parts.second = b)

\* C3: for every canonical x and every 0 <= n <= x.len (n = 0 and n = x.len
\* included), split(x, n) succeeds with first.len = n, second.len = x.len - n,
\* and concatenate(first, second) == x.
C3_ConcatOfSplit ==
    /\ pc = "cutdone" =>
          (parts.ok /\ parts.first.len = at /\ parts.second.len = a.len - at)
    /\ pc = "rejoined" => (r.ok /\ r.val = a)

(***************************************************************************)
(* Claims about drill and vectorize_inner (SpecDrill).                       *)
(***************************************************************************)
\* The innermost (most recently added) flag of a packet.
InnerFlag(p) == p.last[Len(p.last)]

\* The items f yields for element i of the drilled stream, if it has data.
ItemsOf(i) == Apply(f, unwrap(stream[i].data))

HasItems(i) == is_some(stream[i].data) /\ Len(ItemsOf(i)) >= 1
HasNoItems(i) == is_some(stream[i].data) /\ Len(ItemsOf(i)) = 0

\* Number of output elements the claims give element i of the input: its k
\* items, or one element when it has no data or no items.
GroupSize(i) == IF HasItems(i) THEN Len(ItemsOf(i)) ELSE 1

RECURSIVE Offset(_)
\* Number of output elements that precede the group of input element i.
Offset(i) == IF i = 1 THEN 0 ELSE Offset(i - 1) + GroupSize(i - 1)

Drilled == pc \in {"drilled", "vectorized"}

\* C4: an input element with data whose f yields k >= 1 items gives exactly k
\* consecutive output elements carrying the items in f's order, the new
\* innermost flag false on the first k-1 and true on the k-th; the groups of
\* successive input elements follow each other in input order.
C4_DrillItems ==
    Drilled =>
        /\ dout.ok
        /\ Len(dout.out) = Offset(Len(stream) + 1)
        /\ \A i \in 1..Len(stream) :
              HasItems(i) =>
                  \A j \in 1..Len(ItemsOf(i)) :
                      /\ dout.out[Offset(i) + j].data = Some(ItemsOf(i)[j])
                      /\ InnerFlag(dout.out[Offset(i) + j]) = (j = Len(ItemsOf(i)))

C4_Witness ==
    /\ pc = "drilled"
    /\ Len(stream) = 2
    /\ HasItems(1) /\ Len(ItemsOf(1)) = 3
    /\ HasItems(2) /\ Len(ItemsOf(2)) = 2
    /\ Len(dout.out) = 5

\* C5: an input element with data for which f yields nothing gives exactly one
\* output element, without data, whose last vector is the input's followed by
\* true.
C5_DrillEmptyGroup ==
    Drilled =>
        /\ dout.ok
        /\ Len(dout.out) = Offset(Len(stream) + 1)
        /\ \A i \in 1..Len(stream) :
              HasNoItems(i) =>
                  dout.out[Offset(i) + 1] = TydiPacket(None, stream[i].last \o <<TRUE>>)

C5_Witness ==
    /\ pc = "drilled"
    /\ Len(stream) = 2
    /\ HasItems(1)
    /\ HasNoItems(2)
    /\ is_none(dout.out[Len(dout.out)].data)

\* The data of the elements of s that have data, in order.
RECURSIVE PresentData(_)
PresentData(s) ==
    IF Len(s) = 0 THEN <<>>
    ELSE (IF is_some(Head(s).data) THEN <<unwrap(Head(s).data)>> ELSE <<>>)
         \o PresentData(Tail(s))

\* C6: an input element without data gives exactly one output element, without
\* data, whose last vector is the input's followed by false, and f is not
\* evaluated for it.
C6_DrillNoData ==
    Drilled =>
        /\ dout.ok
        /\ Len(dout.out) = Offset(Len(stream) + 1)
        /\ dout.calls = PresentData(stream)
        /\ \A i \in 1..Len(stream) :
              is_none(stream[i].data) =>
                  dout.out[Offset(i) + 1] = TydiPacket(None, stream[i].last \o <<FALSE>>)

C6_Witness ==
    /\ pc = "drilled"
    /\ Len(stream) = 2
    /\ is_none(stream[1].data)
    /\ HasItems(2)
    /\ Len(dout.calls) = 1

\* C7: if every input element has a last vector of length d, every output
\* element has one of length d+1 whose first d flags are those of the input
\* element it was produced from.
C7_DrillKeepsOuterFlags ==
    (Drilled /\ IsHomogeneous(stream)) =>
        /\ dout.ok
        /\ Len(dout.out) = Offset(Len(stream) + 1)
        /\ IsHomogeneous(dout.out)
        /\ \A i \in 1..Len(stream) :
              \A j \in 1..GroupSize(i) :
                  LET o == dout.out[Offset(i) + j]
                      d == Len(stream[1].last)
                  IN  /\ Len(o.last) = d + 1
                      /\ SubSeq(o.last, 1, d) = stream[i].last

C7_Witness ==
    /\ pc = "drilled"
    /\ Len(stream) = 2
    /\ stream[1].last = <<TRUE>>
    /\ stream[2].last = <<FALSE>>
    /\ HasItems(1) /\ Len(ItemsOf(1)) = 2
    /\ Len(dout.out) >= 3

\* C8: for every sequence xs of domain values and every f,
\* vectorize_inner(drill(convert(xs), f)) has as many elements as convert(xs);
\* element i has the last of convert(xs)[i] and the list of items of f(xs[i])
\* as data, an empty list (not an absent payload) when f(xs[i]) is empty.
C8_VectorizeInnerOfDrill ==
    (pc = "vectorized" /\ stream = convert(xs)) =>
        /\ vout.ok
        /\ Len(vout.out) = Len(xs)
        /\ \A i \in 1..Len(xs) :
              vout.out[i] = TydiPacket(Some(Apply(f, xs[i])), stream[i].last)

C8_Witness ==
    /\ pc = "vectorized"
    /\ Len(xs) = 2
    /\ stream = convert(xs)
    /\ Len(xs[1].tags) = 0
    /\ Len(xs[2].tags) = 3
    /\ f = "tags_rev"
    /\ Len(vout.out) = 2

(***************************************************************************)
(* Claims about inject (SpecInject).                                         *)
(***************************************************************************)
\* The child stream read as groups: a packet without data is a group of no
\* values, packets with data form a group that ends with the first packet
\* whose innermost flag is true.  ok is FALSE when the stream ends inside a
\* group or a packet without data stands inside one.
RECURSIVE ReadGroups(_, _, _, _)
ReadGroups(data, i, cur, acc) ==
    IF i > Len(data)
    THEN [ok |-> Len(cur) = 0, groups |-> acc]
    ELSE IF is_none(data[i].data)
    THEN IF Len(cur) = 0
         THEN ReadGroups(data, i + 1, <<>>, Append(acc, <<>>))
         ELSE [ok |-> FALSE, groups |-> acc]
    ELSE IF InnerFlag(data[i])
    THEN ReadGroups(data, i + 1, <<>>, Append(acc, Append(cur, unwrap(data[i].data))))
    ELSE ReadGroups(data, i + 1, Append(cur, unwrap(data[i].data)), acc)

ChildGroups == ReadGroups(child, 1, <<>>, <<>>)

\* Every parent has data and an empty target field, and the child encodes one
\* group for each parent.
AlignedEmptyParents ==
    /\ \A i \in 1..Len(parent0) :
          is_some(parent0[i].data) /\ unwrap(parent0[i].data).tags = <<>>
    /\ ChildGroups.ok
    /\ Len(ChildGroups.groups) = Len(parent0)

\* C9: with n parents that have data and empty target fields and a child that
\* encodes one group of k_i >= 0 values for each, inject appends exactly the
\* values of group i, in order, to the field of element i.
C9_InjectGroups ==
    (pc = "injected" /\ AlignedEmptyParents) =>
        /\ Len(parent) = Len(parent0)
        /\ cidx = Len(child)
        /\ \A i \in 1..Len(parent) :
              /\ is_some(parent[i].data)
              /\ unwrap(parent[i].data).tags = ChildGroups.groups[i]

C9_Witness ==
    /\ pc = "injected"
    /\ AlignedEmptyParents
    /\ Len(parent) = 2
    /\ Len(ChildGroups.groups[1]) = 0
    /\ Len(ChildGroups.groups[2]) = 3
    /\ unwrap(parent[2].data).tags = <<11, 12, 11>>

\* A step of inject that processes a parent element without data.
SkipsParent ==
    /\ pc = "inject"
    /\ pidx < Len(parent)
    /\ is_none(parent[pidx + 1].data)
    /\ pidx' = pidx + 1

\* C10 as claimed: a parent element without data is skipped without taking
\* any element from the child stream.
C10_SkipTakesNothing == [][SkipsParent => cidx' = cidx]_vars

\* C10 as amended: a parent element without data takes exactly one element
\* from the child stream when one is left (none when the child is exhausted),
\* and appends nothing.
C10_SkipTakesOne ==
    [][SkipsParent =>
          /\ cidx' = (IF cidx < Len(child) THEN cidx + 1 ELSE cidx)
          /\ parent' = parent]_vars

C10_Witness ==
    /\ pc = "inject"
    /\ pidx = 1
    /\ is_none(parent[1].data)
    /\ Len(child) >= 2
    /\ cidx = 1

\* A step of inject that fills the field of a parent element with data.
FillsParent ==
    /\ pc = "inject"
    /\ pidx < Len(parent)
    /\ is_some(parent[pidx + 1].data)
    /\ pidx' = pidx + 1

\* Every child element from position c on has data and an innermost flag that
\* is false: a group read from c never ends (c = Len(data) included).
RunsOut(data, c) ==
    \A k \in (c + 1)..Len(data) : is_some(data[k].data) /\ ~InnerFlag(data[k])

\* C11: when the child stream runs out while a parent element with data has
\* not yet seen a child element whose innermost flag is true (or an empty-group
\* marker), inject ends in a failure and does not go on to return the parent
\* stream.
C11_StarvedGroupFails ==
    [][(FillsParent /\ RunsOut(child, cidx)) => pc' # "inject"]_vars

\* The first child element without data at or after position c + 1 that a
\* group read from c reaches: 0 when the group ends before, or never.
RECURSIVE AbsentInGroup(_, _)
AbsentInGroup(data, c) ==
    IF c >= Len(data) THEN 0
    ELSE IF is_none(data[c + 1].data) THEN c + 1
    ELSE IF InnerFlag(data[c + 1]) THEN 0
    ELSE AbsentInGroup(data, c + 1)

\* The element without data the fill from c takes is not an empty-group marker
\* of this parent: values were appended before it, or its innermost flag is
\* false.
TakesBadMarker(data, c) ==
    LET k == AbsentInGroup(data, c)
    IN  k > 0 /\ (k > c + 1 \/ ~InnerFlag(data[k]))

\* C12: when inject, filling the field of a parent, takes a child element
\* without data that is not a valid empty-group marker for that parent, it ends
\* in a failure instead of treating the element as the end of the group.
C12_BadMarkerFails ==
    [][(FillsParent /\ TakesBadMarker(child, cidx)) => pc' # "inject"]_vars

(***************************************************************************)
(* Claims about vectorize and vectorize_inner (SpecVectorize).               *)
(***************************************************************************)
NonEmptyLasts(s) == \A i \in 1..Len(s) : Len(s[i].last) >= 1

\* The positions of the elements of s whose innermost flag is true, ascending.
RECURSIVE EndPositions(_, _)
EndPositions(s, i) ==
    IF i > Len(s) THEN <<>>
    ELSE (IF InnerFlag(s[i]) THEN <<i>> ELSE <<>>) \o EndPositions(s, i + 1)

\* An element closing a group without data is only a marker.
Contributes(p) == ~(is_none(p.data) /\ InnerFlag(p))

Stripped(p) == TydiPacket(p.data, SubSeq(p.last, 1, Len(p.last) - 1))

\* The j-th group of s: the contributing elements after the previous group end
\* up to the j-th group end, without their innermost flag.
GroupOf(s, j) ==
    LET ends == EndPositions(s, 1)
        lo == IF j = 1 THEN 0 ELSE ends[j - 1]
        members == SelectSeq(SubSeq(s, lo + 1, ends[j]), Contributes)
    IN  [k \in 1..Len(members) |-> Stripped(members[k])]

Grouped == pc \in {"vec_grouped", "vec_both"}

\* C13: for a stream whose elements all have a non-empty last vector, vectorize
\* returns one group per element whose innermost flag is true, in order; each
\* group holds, in input order, the elements since the previous group end
\* without their innermost flag, except that an element without data whose
\* innermost flag is true contributes none.
C13_VectorizeGroups ==
    (Grouped /\ NonEmptyLasts(stream)) =>
        /\ gout.ok
        /\ Len(gout.out) = Len(EndPositions(stream, 1))
        /\ \A j \in 1..Len(gout.out) : gout.out[j] = GroupOf(stream, j)

C13_Witness ==
    /\ pc = "vec_grouped"
    /\ Len(stream) = 4
    /\ stream[1] = TydiPacket(Some(11), <<FALSE>>)
    /\ stream[2] = TydiPacket(None, <<FALSE>>)
    /\ stream[3] = TydiPacket(Some(12), <<TRUE>>)
    /\ stream[4] = TydiPacket(None, <<TRUE>>)
    /\ Len(gout.out) = 2
    /\ Len(gout.out[1]) = 3
    /\ Len(gout.out[2]) = 0

\* C14: vectorize_inner groups as vectorize does: for a stream whose elements
\* all have a non-empty last vector (elements without data whose innermost flag
\* is false included), both results have the same number of entries, and the
\* payload list of the i-th vectorize_inner entry is the ordered data of the
\* elements of the i-th vectorize group that have data.
C14_InnerSameGrouping ==
    (pc = "vec_both" /\ NonEmptyLasts(stream)) =>
        /\ gout.ok
        /\ vout.ok
        /\ Len(vout.out) = Len(gout.out)
        /\ \A i \in 1..Len(vout.out) :
              /\ is_some(vout.out[i].data)
              /\ unwrap(vout.out[i].data) = PresentData(gout.out[i])

(***************************************************************************)
(* Claims about the codec (SpecCodec).                                       *)
(***************************************************************************)
\* Bit j of the native bytes of a fixed-width value.
PayloadBit(v, j) == BitOf(to_ne_bytes(v, big_endian)[(j \div 8) + 1], j % 8)

\* The layout of one element in a buffer: strobe, last flags, payload.
IsLayoutOf(buf, el, d, w) ==
    /\ buf.len = 1 + d + w
    /\ Bit(buf, 0) = (IF is_some(el.data) THEN 1 ELSE 0)
    /\ \A i \in 0..(d - 1) : Bit(buf, 1 + i) = (IF el.last[i + 1] THEN 1 ELSE 0)
    /\ \A j \in 0..(w - 1) :
          Bit(buf, d + 1 + j) =
              (IF is_some(el.data) THEN PayloadBit(unwrap(el.data), j) ELSE 0)

\* finish was given the width of the payload type.
WidthFits == size = 8 * tsize

\* C15: for an element with a last vector of length d and payloads of width w,
\* the buffer has length 1 + d + w, bit 0 is 1 iff the payload is present, bit
\* 1+i is last[i], and bits d+1 .. d+w are the payload's bits, or zero when the
\* payload is absent; finish yields one such buffer per element, in order.
C15_FinishLayout ==
    (pc \in {"finished", "unpacked"} /\ WidthFits) =>
        /\ bins.ok
        /\ Len(bins.out) = Len(stream)
        /\ \A i \in 1..Len(stream) : IsLayoutOf(bins.out[i], stream[i], depth, size)

C15_Witness ==
    /\ pc = "finished"
    /\ WidthFits
    /\ tsize = 2
    /\ depth = 9
    /\ Len(stream) = 2
    /\ is_some(stream[1].data)
    /\ stream[1].last = [i \in 1..9 |-> i % 2 = 1]
    /\ is_none(stream[2].data)
    /\ Len(bins.out) = 2
    /\ bins.out[1].len = 26

\* C16: for a stream whose elements all have last vectors of length d (d = 0
\* included) and payloads of width w, packets_from_binaries(finish(s, w), d)
\* equals s element by element.
C16_CodecRoundTrip ==
    (pc = "finished" /\ WidthFits => bins.ok)
    /\ (pc = "unpacked" /\ WidthFits => (decoded.ok /\ decoded.out = stream))

(***************************************************************************)
(* Claims about the conversions of binary.rs.                                *)
(***************************************************************************)
\* C17: for a value v of a fixed-width integer type of w bits (w in 8, 16, 32,
\* 64), TydiBinary::from(v) has len = w and v's native bytes as data, and
\* from_tydi_binary(concatenate(TydiBinary::from(v), rest)) returns (v, rest)
\* for every canonical buffer rest, the empty one included.
C17_PrimitiveRoundTrip ==
    /\ pc \in {"glue", "glued", "prim_back"} =>
          /\ a.len = 8 * prim.size
          /\ a.data = (IF big_endian THEN Reverse(prim.bytes) ELSE prim.bytes)
    /\ pc \in {"glued", "prim_back"} => r.ok
    /\ pc = "prim_back" =>
          /\ back.ok
          /\ back.value = Some(prim)
          /\ back.rest = b

C17_Witness ==
    /\ pc = "prim_back"
    /\ prim = [size |-> 8, bytes |-> <<1, 2, 3, 4, 5, 6, 7, 8>>]
    /\ b = empty
    /\ r.val.len = 64
    /\ back.ok
    /\ back.rest = empty

\* C18: every TydiBinary produced by the public operations of binary.rs
\* (empty, new, the conversions from numbers, bool, char and Vec<bool>, and
\* concatenate and split applied to values that satisfy the invariant)
\* satisfies len <= 8 * |data|.
C18_LenWithinData ==
    /\ pc \in {"glue", "glued", "unglued"} => SatisfiesInvariant(a)
    /\ (pc \in {"glued", "unglued"} /\ r.ok /\ SatisfiesInvariant(a) /\ SatisfiesInvariant(b)) =>
          SatisfiesInvariant(r.val)
    /\ (pc = "unglued" /\ parts.ok /\ SatisfiesInvariant(r.val)) =>
          (SatisfiesInvariant(parts.first) /\ SatisfiesInvariant(parts.second))

\* C19: split(x, n) with n > x.len always ends in a failure and never returns
\* a pair of buffers, for every buffer x, buffers whose data has spare
\* capacity beyond len included.
C19_SplitBeyondLenFails ==
    pc = "overcut_done" => (at > a.len /\ ~parts.ok)

C19_Witness ==
    /\ pc = "overcut_done"
    /\ ~overflow_checks
    /\ a = Buf(<<67, 165>>, 3)
    /\ at = 9
    /\ ~parts.ok
    /\ parts.err = "index out of bounds"

\* C20 as claimed: for all buffers a, b with a.len mod 8 = 0 (a.len = 0
\* included), the data of concatenate(a, b) is a.data followed by b.data.
C20_AlignedAppends ==
    (pc = "glued" /\ a.len % 8 = 0) => (r.ok /\ r.val.data = a.data \o b.data)

\* C20 as amended: for all buffers a, b with a.len mod 8 = 0 and a.len > 0 the
\* data of concatenate(a, b) is a.data followed by b.data; for a.len = 0 the
\* result is b unchanged, whatever a.data holds.
C20_AlignedAppendsOrReturnsOther ==
    (pc = "glued" /\ a.len % 8 = 0) =>
        /\ r.ok
        /\ a.len > 0 => r.val.data = a.data \o b.data
        /\ a.len = 0 => r.val = b

C20_Witness ==
    /\ pc = "glued"
    /\ a = Buf(<<67, 165>>, 8)
    /\ b = Buf(<<165>>, 3)
    /\ r.val = Buf(<<67, 165, 165>>, 11)

(***************************************************************************)
(* Further claims about inject (SpecInject).                                 *)
(***************************************************************************)
IsPrefix(p, q) == Len(p) <= Len(q) /\ SubSeq(q, 1, Len(p)) = p

\* C21: inject changes only the accessed field of parent elements with data:
\* afterwards the parent has the same number of elements, every last vector
\* is unchanged, every element without data is still without data, the rest
\* of a payload is unchanged, and the previous contents of the field are a
\* prefix of its new contents.
C21_InjectFrame ==
    pc = "injected" =>
        /\ Len(parent) = Len(parent0)
        /\ \A i \in 1..Len(parent0) :
              /\ parent[i].last = parent0[i].last
              /\ is_none(parent[i].data) = is_none(parent0[i].data)
              /\ is_some(parent0[i].data) =>
                    /\ unwrap(parent[i].data).id = unwrap(parent0[i].data).id
                    /\ IsPrefix(unwrap(parent0[i].data).tags, unwrap(parent[i].data).tags)

C21_Witness ==
    /\ pc = "injected"
    /\ Len(parent0) = 2
    /\ is_none(parent0[1].data)
    /\ parent0[2].data = Some([id |-> 2, tags |-> <<20>>])
    /\ parent[2].data = Some([id |-> 2, tags |-> <<20, 11, 12>>])
    /\ is_none(parent[1].data)

(***************************************************************************)
(* Further claims about the conversions of binary.rs.                        *)
(***************************************************************************)
\* C22: converting a Vec<bool> of any length to a TydiBinary and back recovers
\* the original vector.
C22_BoolsRoundTrip ==
    pc = "bools_unpacked" => unpacked = bools

\* C23: converting an ASCII character to a TydiBinary yields a buffer whose
\* bit length is 8.
C23_AsciiCharIsOneByte ==
    [][(FromChar /\ \E c \in Chars : IsAscii(c) /\ a' = from_char(c)) => a'.len = 8]_vars

(***************************************************************************)
(* Claims about the TydiBinary of lib.rs (SpecPacking).                      *)
(***************************************************************************)
\* C24: packing k >= 1 u32 fields by folding concatenate from empty() succeeds,
\* every one of the k split_for calls that follow succeeds, the values come
\* back in their original order, and the remainder after the k-th call has
\* bit length 0.
C24_PackingRoundTrip ==
    /\ pc # "pack_failed"
    /\ got.ok
    /\ pc = "packed" =>
          /\ got.out = SubSeq(vals, 1, Len(got.out))
          /\ Len(got.out) = Len(vals) => b.len = 0

\* Three fields were packed and all three came back.
C24_Witness ==
    /\ pc = "packed"
    /\ Len(vals) = 3
    /\ Len(got.out) = 3
    /\ vals[1] # vals[2]
    /\ vals[2] # vals[3]
    /\ got.out = vals
    /\ b.len = 0

(***************************************************************************)
(* Claims about convert (SpecDrill).                                         *)
(***************************************************************************)
\* C25: convert turns n values into n elements in input order, every payload
\* present, every last vector of length 1, and last[0] true on the final
\* element only; the empty input gives the empty stream.
C25_ConvertShape ==
    [][Convert =>
          /\ Len(stream') = Len(xs')
          /\ \A i \in 1..Len(xs') :
                /\ stream'[i].data = Some(xs'[i])
                /\ Len(stream'[i].last) = 1
                /\ stream'[i].last[1] = (i = Len(xs'))
          /\ xs' = <<>> => stream' = <<>>]_vars

\* Two different values were converted.
C25_Witness ==
    /\ pc = "stream"
    /\ Len(xs) = 2
    /\ xs[1] # xs[2]
    /\ stream = convert(xs)
    /\ stream[1].last = << FALSE >>
    /\ stream[2].last = << TRUE >>

(***************************************************************************)
(* Claims about Display (SpecShow).                                          *)
(***************************************************************************)
\* The digits of a Display string: what follows the prefix.
Digits(str) == SubSeq(str, 3, Len(str))

\* str is "0b" followed by x.len digits, the digit at position i being bit
\* (x.len - 1 - i) of x.
IsDisplayOf(str, x) ==
    /\ Len(str) = 2 + x.len
    /\ str[1] = "0"
    /\ str[2] = "b"
    /\ \A i \in 0..(x.len - 1) :
          str[3 + i] = (IF Bit(x, x.len - 1 - i) = 1 THEN "1" ELSE "0")

\* C26: the Display string of a canonical buffer is "0b" followed by its len
\* bits, highest first; the Display string of concatenate(a, b) for a
\* non-empty a is "0b", then the digits of b, then the digits of a.
C26_DisplayDigits ==
    /\ pc = "shown" => shown.ok /\ IsDisplayOf(shown.out, a)
    /\ pc = "glued" /\ a.len > 0 => r.ok
    /\ pc = "glued_shown" /\ a.len > 0 =>
          /\ shown.ok
          /\ fmt(a).ok /\ fmt(b).ok
          /\ shown.out = << "0", "b" >> \o Digits(fmt(b).out) \o Digits(fmt(a).out)

\* Two unaligned buffers with set and clear bits were joined and printed.
C26_Witness ==
    /\ pc = "glued_shown"
    /\ a.len = 3
    /\ b.len = 10
    /\ a.data = << 5 >>
    /\ b.data[1] = 67
    /\ Len(shown.out) = 15

\* A buffer of two bytes and a half was printed.
C26_WitnessShown ==
    /\ pc = "shown"
    /\ a.len = 12
    /\ a.data = << 165, 3 >>
    /\ shown.out = << "0", "b", "0", "0", "1", "1", "1", "0", "1", "0", "0", "1", "0", "1" >>

(***************************************************************************)
(* Claims about inject after drill (SpecRound).                              *)
(***************************************************************************)
\* C27: injecting drill(p, field) into p with the field emptied finds an
\* element of the child left for every parent element, has taken all of the
\* child when the last parent is done, and returns a stream equal to p.
C27_InjectOfDrill ==
    /\ pc \notin {"drill_panic", "inject_panic"}
    /\ pc = "inject" /\ pidx < Len(parent) => cidx < Len(child)
    /\ pc = "injected" => parent = parent0 /\ cidx = Len(child)

\* An absent parent and a parent with two items went through the round trip.
C27_Witness ==
    /\ pc = "injected"
    /\ Len(parent0) = 2
    /\ is_none(parent0[1].data)
    /\ is_some(parent0[2].data)
    /\ Len(unwrap(parent0[2].data).tags) = 2
    /\ Len(child) = 3
    /\ parent = parent0

(***************************************************************************)
(* Claims about the payloads vectorize_inner keeps (SpecVectorize).          *)
(***************************************************************************)
\* The payload lists of a grouped stream, concatenated in order.
PayloadLists(g) ==
    Flatten([i \in 1..Len(g) |-> IF is_some(g[i].data) THEN unwrap(g[i].data) ELSE <<>>])

\* The final element of the stream closes the innermost dimension.
EndsClosed(s) == Len(s) > 0 /\ InnerFlag(s[Len(s)])

\* C28: for a stream whose elements all have a non-empty last vector and whose
\* final element has the innermost last flag true, the payload lists of
\* vectorize_inner's output, concatenated in order, are the present payloads
\* of the input in order.
C28_InnerKeepsPayloads ==
    (pc = "vec_both" /\ NonEmptyLasts(stream) /\ EndsClosed(stream)) =>
        /\ vout.ok
        /\ PayloadLists(vout.out) = PresentData(stream)

(***************************************************************************)
(* Claims about the canonical form (SpecBinary).                             *)
(***************************************************************************)
\* C29: concatenate of two canonical buffers succeeds and its result is
\* canonical; split of a canonical buffer at 0 < n <= len succeeds and both
\* parts are canonical.
C29_CanonicalKept ==
    /\ pc \in {"glued", "rejoined"} => r.ok /\ IsCanonical(r.val)
    /\ (pc \in {"cutdone", "unglued"} /\ at > 0) =>
          /\ parts.ok
          /\ IsCanonical(parts.first)
          /\ IsCanonical(parts.second)

\* A buffer of a byte and a half was cut inside its first byte.
C29_Witness ==
    /\ pc = "cutdone"
    /\ a.len = 13
    /\ a.data = << 165, 3 >>
    /\ at = 3
    /\ parts.ok
    /\ parts.first = Buf(<< 5 >>, 3)
    /\ parts.second.len = 10

(***************************************************************************)
(* Claims about chains of concatenate (SpecAssoc).                           *)
(***************************************************************************)
\* C30: on canonical buffers concatenate is associative, and empty() is its
\* identity on both sides: (a ++ b) ++ c = a ++ (b ++ c), empty ++ a = a and
\* a ++ empty = a, none of the calls failing.
C30_AssociativeWithIdentity ==
    /\ pc = "both" => lhs.ok /\ rhs.ok /\ lhs.val = rhs.val
    /\ pc = "empty_left" => r = Ok(a)
    /\ pc = "empty_right" => r = Ok(a)

\* Three unaligned buffers with set bits were joined both ways.
C30_Witness ==
    /\ pc = "both"
    /\ a = Buf(<< 5 >>, 3)
    /\ b = Buf(<< 67 >>, 7)
    /\ third = Buf(<< 165, 1 >>, 9)
    /\ lhs.ok
    /\ lhs.val.len = 19
    /\ lhs.val = rhs.val

====
